---- MODULE Spec2Model ----
(***************************************************************************)
(* State-machine model of the File Tree Preview view (src/main.ts):        *)
(* the vault (folder and file objects), the tree render pass guarded by    *)
(* isRenderingTree, the unguarded preview render pass, the drop handler    *)
(* with its hierarchy checks, and the triggers that request renders.       *)
(*                                                                         *)
(* Every `await` of the source is a suspension point: the handler's code   *)
(* up to the next await is one atomic step, and any other callback may run *)
(* between two steps.                                                      *)
(***************************************************************************)
EXTENDS Integers, Sequences, FiniteSets, TLC

\* ------------------------------------------------------------------ bounds
NFolders == 3
NFiles == 2
MaxVaultChanges == 2
MaxPreviewRuns == 2
MaxStoreCalls == 1
MaxSortSaves == 1

\* --------------------------------------------------------------- constants
Root == 0
None == -1
Detached == -2

Folders == 1..NFolders
Files == 1..NFiles

VARIABLES
    \* the vault: TFolder / TFile objects, identified by number
    folderExists,      \* [Folders -> BOOLEAN]  the object is in the vault
    folderParent,      \* [Folders -> Folders \cup {Root, None}]  TFolder.parent
    folderPath,        \* [Folders -> Seq(Folders)]  TFolder.path
    fileExists,        \* [Files -> BOOLEAN]
    fileParent,        \* [Files -> Folders \cup {Root, None}]  TFile.parent
    storeCalls,        \* vault.rename calls issued by the view, not yet settled
    vaultChanges,      \* number of changes the vault has carried out so far
    \* the view
    phase,             \* how far onOpen has come: "constructed", "opening-tree",
                       \* "opening-preview", "open" (listeners registered),
                       \* "open-failed" (onOpen rejected), "closed"
    selectedFolder,    \* FileTreePreviewView.selectedFolder
    activeFile,        \* FileTreePreviewView.activeFile
    collapsedFolders,  \* FileTreePreviewView.collapsedFolders (set of paths)
    isRenderingTree,   \* FileTreePreviewView.isRenderingTree
    renders,           \* the renderFileTree bodies in execution (between set and clear)
    treeRows,          \* the folder rows below treeContainer, in creation order
    requestDropped,    \* a renderFileTree call returned at the guard since the token was taken
    previewRuns,       \* the renderPreview calls suspended in their file loop
    previewCards,      \* the cards below previewContent
    previewMsg,        \* the placeholder text of previewContent
    lastNotice,        \* the Notice on screen ("none" when none)
    lastDrop,          \* the dragged item and the target folder of the last drop
    dataCollapsedFolders,  \* plugin.data.collapsedFolders, the array that is saved
    lastToggle,        \* the path of the last caret toggle and the CollapseSet before it
    sortOrder,         \* plugin.data.sortOrder
    sortSaves,         \* the updateSort calls that await savePluginData
    \* the pure functions of the view, their arguments and results
    sortArg,           \* the array handed to sortFiles
    sortResult,        \* the array after sortFiles, with the order it was sorted by
    content,           \* the string handed to extractPreviewText
    parts,             \* the texts that content was put together from
    removeLinkBrackets,  \* plugin.data.removeLinkBrackets
    previewText,       \* the string extractPreviewText returned
    \* the New file button
    creates,           \* the createFile calls of the New file button, not yet returned
    untitledNo,        \* [Files -> -1..NFiles]  0 for a file named Untitled.md, n for
                       \* Untitled n.md, -1 for a file of another name
    \* the Delete entry of the folder context menu
    dialogs,           \* the DeleteFolderModal objects that are open, by their folder
    trashCalls,        \* fileManager.trashFile calls issued by the view, not yet settled
    fileExt,           \* [Files -> {"md", "txt"}]  TFile.extension
    \* the resize handle
    isResizing,        \* FileTreePreviewView.isResizing
    treeWidth,         \* plugin.data.treeWidth, the width of treeContainer in px
    lastMove           \* the pointer position and the container width that the last
                       \* handleMouseMove worked on

storeVars == <<folderExists, folderParent, folderPath, fileExists, fileParent, storeCalls, vaultChanges>>
selVars == <<selectedFolder, activeFile, collapsedFolders>>
treeVars == <<isRenderingTree, renders, treeRows, requestDropped>>
previewVars == <<previewRuns, previewCards, previewMsg>>
\* the argument and the result of sortFiles, of extractPreviewText
pureVars == <<sortArg, sortResult, content, parts, removeLinkBrackets, previewText>>
\* the runs of createFile and the names they probe
probeVars == <<creates, untitledNo>>
\* the confirmation dialogs and what they issued
dialogVars == <<dialogs, trashCalls>>
\* the drag of the resize handle
resizeVars == <<isResizing, treeWidth, lastMove>>
extraVars == <<dialogVars, fileExt, resizeVars>>
restVars == <<pureVars, probeVars, extraVars>>
vars == <<storeVars, phase, selVars, treeVars, previewVars, lastNotice, lastDrop,
          dataCollapsedFolders, lastToggle, sortOrder, sortSaves, restVars>>

\* ------------------------------------------------------------------- vault

\* TFolder.name: folder n is named by its number, names sort as numbers do
FolderName(f) == f

\* TFile.basename: file x is named by its number, unless it is Untitled or
\* Untitled n, which sort behind the numbers
FileBasename(x) == IF untitledNo[x] = -1 THEN x ELSE NFiles + 1 + untitledNo[x]

\* folder.children.filter(item instanceof TFolder)
SubFolders(ex, par, f) == {c \in Folders : ex[c] /\ par[c] = f}

\* folder.children.filter(child instanceof TFile)
FilesOf(fex, fpar, f) == {x \in Files : fex[x] /\ fpar[x] = f}

\* the folder object is the root or a folder of the vault
InVault(ex, f) == IF f = Root THEN TRUE ELSE IF f = None THEN FALSE ELSE ex[f]

\* a walk whose step stays on the folder it is on
ParentOfStuck(par, f) == IF f = Root \/ f = None THEN None ELSE f

\* TFolder.parent; the root's parent is null
ParentOf(par, f) == IF f = Root \/ f = None THEN None ELSE par[f]

\* TFolder.path of a folder placed below dest
PathBelow(paths, dest, f) ==
    (IF dest = Root THEN <<>> ELSE paths[dest]) \o <<FolderName(f)>>

RECURSIVE SortFolders(_)
\* .sort((a, b) => a.name.localeCompare(b.name)) of a set of folders
SortFolders(S) ==
    IF S = {} THEN <<>>
    ELSE LET m == CHOOSE x \in S : \A y \in S : FolderName(x) <= FolderName(y)
         IN  <<m>> \o SortFolders(S \ {m})

RECURSIVE sortFilesBy(_, _)
\* files.sort by basename, a to z or z to a
sortFilesBy(order, S) ==
    IF S = {} THEN <<>>
    ELSE LET m == CHOOSE x \in S : \A y \in S :
                     IF order = "name-desc" THEN FileBasename(x) >= FileBasename(y)
                     ELSE FileBasename(x) <= FileBasename(y)
         IN  <<m>> \o sortFilesBy(order, S \ {m})

\* sortFiles under plugin.data.sortOrder, "name-asc" or "name-desc"
sortFiles(S) == sortFilesBy(sortOrder, S)

RECURSIVE isDescendantOfWalk(_, _, _, _)
\* the while loop of isDescendantOf, with the folders it has been on: w holds
\* current, the folders visited so far and the iterations left to the model;
\* done says that the loop has returned, result what it returned
isDescendantOfWalk(par, possibleAncestor, w, fuel) ==
    IF w.current = None THEN [w EXCEPT !.done = TRUE, !.result = FALSE]
    ELSE IF fuel = 0 THEN w
    ELSE LET seen == [w EXCEPT !.visited = Append(w.visited, w.current)] IN
         IF w.current = possibleAncestor THEN [seen EXCEPT !.done = TRUE, !.result = TRUE]
         ELSE isDescendantOfWalk(par, possibleAncestor,
                                 [seen EXCEPT !.current = ParentOf(par, w.current)],
                                 fuel - 1)

RECURSIVE isDescendantOf(_, _, _)
\* the walk up the parent chain of possibleDescendant
isDescendantOf(par, possibleDescendant, possibleAncestor) ==
    IF possibleDescendant = None THEN FALSE
    ELSE IF possibleDescendant = possibleAncestor THEN TRUE
    ELSE isDescendantOf(par, ParentOf(par, possibleDescendant), possibleAncestor)

\* ------------------------------------------------------------- tree render

\* The tree pane as one record: the token, the executing render bodies, the rows.
TreeState == [flag |-> isRenderingTree, renders |-> renders,
              rows |-> treeRows, dropped |-> requestDropped]

RemoveAt(s, i) == SubSeq(s, 1, i - 1) \o SubSeq(s, i + 1, Len(s))

Pop(s) == SubSeq(s, 1, Len(s) - 1)

RECURSIVE renderFolderSkipCollapsed(_, _, _, _, _, _)
\* a walk that does not descend into a folder whose path is collapsed
renderFolderSkipCollapsed(ex, par, paths, sel, coll, w) ==
    LET top == w.stack[Len(w.stack)] IN
    IF top.todo = <<>> THEN [w EXCEPT !.stack = Pop(w.stack)]
    ELSE LET item == Head(top.todo)
             attached == top.container # Detached
             row == [folder |-> item,
                     container |-> top.container,
                     selected |-> (sel = item),
                     collapsed |-> (paths[item] \in coll),
                     caret |-> (SubFolders(ex, par, item) # {})]
             frame == [todo |-> IF paths[item] \in coll THEN <<>>
                                ELSE SortFolders(SubFolders(ex, par, item)),
                       container |-> IF attached THEN Len(w.rows) + 1 ELSE Detached]
             next == [stack |-> Append([w.stack EXCEPT ![Len(w.stack)].todo = Tail(top.todo)],
                                       frame),
                      rows |-> IF attached THEN Append(w.rows, row) ELSE w.rows]
         IN  CHOOSE out \in {renderFolderSkipCollapsed(ex, par, paths, sel, coll, v) : v \in {next}} : TRUE

RECURSIVE renderFolder(_, _, _, _, _, _)
\* renderFolder from the resumption of the top frame to the next await: the
\* frame emits the row of its next folder and calls renderFolder on it, which
\* runs synchronously down the chain of first children; a frame whose loop is
\* over returns, and its caller is suspended on the await.
\* w holds the frames (stack) and the rows below treeContainer (rows).
renderFolder(ex, par, paths, sel, coll, w) ==
    LET top == w.stack[Len(w.stack)] IN
    IF top.todo = <<>> THEN [w EXCEPT !.stack = Pop(w.stack)]
    ELSE LET item == Head(top.todo)
             attached == top.container # Detached
             row == [folder |-> item,
                     container |-> top.container,
                     selected |-> (sel = item),
                     collapsed |-> (paths[item] \in coll),
                     caret |-> (SubFolders(ex, par, item) # {})]
             frame == [todo |-> SortFolders(SubFolders(ex, par, item)),
                       container |-> IF attached THEN Len(w.rows) + 1 ELSE Detached]
             next == [stack |-> Append([w.stack EXCEPT ![Len(w.stack)].todo = Tail(top.todo)],
                                       frame),
                      rows |-> IF attached THEN Append(w.rows, row) ELSE w.rows]
         IN  CHOOSE out \in {renderFolder(ex, par, paths, sel, coll, v) : v \in {next}} : TRUE

\* treeContainer.empty(): the elements of every other pass leave the document
DetachFrames(r) ==
    [r EXCEPT !.stack = [k \in 1..Len(r.stack) |->
        IF r.stack[k].container = Root THEN r.stack[k]
        ELSE [r.stack[k] EXCEPT !.container = Detached]]]

\* renderFileTree past its guard: the token is taken, treeContainer is emptied
\* and the walk runs to its first suspension
renderFileTreeBody(t, ex, par, paths, sel, coll) ==
    LET r == renderFolder(ex, par, paths, sel, coll,
                 [stack |-> <<[todo |-> SortFolders(SubFolders(ex, par, Root)),
                               container |-> Root]>>,
                  rows |-> <<>>])
    IN  [flag |-> TRUE,
         renders |-> Append([i \in 1..Len(t.renders) |-> DetachFrames(t.renders[i])],
                            [stack |-> r.stack, failed |-> FALSE]),
         rows |-> r.rows,
         dropped |-> FALSE]

\* renderFileTree without `if (this.isRenderingTree) return`
renderFileTreeUnguarded(t, ex, par, paths, sel, coll) ==
    renderFileTreeBody(t, ex, par, paths, sel, coll)

\* renderFileTree() from the call to its first suspension
renderFileTree(t, ex, par, paths, sel, coll) ==
    IF t.flag THEN [t EXCEPT !.dropped = TRUE]
    ELSE renderFileTreeBody(t, ex, par, paths, sel, coll)

\* renderFileTree with the release after the await instead of in a finally
\* block: a walk that threw leaves the token set
renderFileTreeNoFinally(t, i) ==
    IF t.renders[i].failed THEN [t EXCEPT !.renders = RemoveAt(t.renders, i)]
    ELSE [t EXCEPT !.flag = FALSE, !.renders = RemoveAt(t.renders, i)]

\* the finally block of renderFileTree: runs when the awaited walk has
\* returned and when it has thrown
renderFileTreeFinally(t, i) ==
    [t EXCEPT !.flag = FALSE, !.renders = RemoveAt(t.renders, i)]

\* one resumption of render body i
renderFileTreeResume(t, i, ex, par, paths, sel, coll) ==
    LET r == t.renders[i] IN
    IF r.stack = <<>> THEN renderFileTreeFinally(t, i)
    ELSE IF r.failed THEN [t EXCEPT !.renders[i].stack = Pop(r.stack)]
    ELSE LET n == renderFolder(ex, par, paths, sel, coll,
                                   [stack |-> r.stack, rows |-> t.rows])
         IN  [t EXCEPT !.renders[i].stack = n.stack, !.rows = n.rows]

\* ---------------------------------------------------------- preview render

PreviewState == [runs |-> previewRuns, cards |-> previewCards, msg |-> previewMsg]

\* renderFilePreview(file) up to its await of vault.read: the card is created
\* in previewContent before the content is read
renderFilePreviewStart(cards, file, active) ==
    Append(cards, [file |-> file, active |-> (active = file), text |-> FALSE])

\* renderPreview() from the call to its first suspension
renderPreview(pv, fex, fpar, sel, active, fromOnOpen) ==
    LET detached == [i \in 1..Len(pv.runs) |-> [pv.runs[i] EXCEPT !.card = Detached]]
    IN
    IF sel = None THEN [runs |-> detached, cards |-> <<>>, msg |-> "select"]
    ELSE LET files == sortFiles(FilesOf(fex, fpar, sel)) IN
         IF files = <<>> THEN [runs |-> detached, cards |-> <<>>, msg |-> "empty"]
         ELSE [runs |-> Append(detached, [todo |-> Tail(files), file |-> Head(files),
                                           card |-> 1, onOpen |-> fromOnOpen]),
               cards |-> renderFilePreviewStart(<<>>, Head(files), active),
               msg |-> "none"]

\* vault.read of run i has returned: the text goes into the run's own card,
\* and the loop creates the card of the next file
renderPreviewResume(pv, i, active) ==
    LET run == pv.runs[i]
        cards1 == IF run.card = Detached THEN pv.cards
                  ELSE [pv.cards EXCEPT ![run.card].text = TRUE]
    IN
    IF run.todo = <<>> THEN [pv EXCEPT !.runs = RemoveAt(pv.runs, i), !.cards = cards1]
    ELSE LET cards2 == renderFilePreviewStart(cards1, Head(run.todo), active)
         IN  [pv EXCEPT !.runs[i] = [run EXCEPT !.todo = Tail(run.todo),
                                               !.file = Head(run.todo),
                                               !.card = Len(cards2)],
                        !.cards = cards2]

\* vault.read of run i has failed: renderPreview rejects, its card stays as it is
renderPreviewFail(pv, i) == [pv EXCEPT !.runs = RemoveAt(pv.runs, i)]


\* --------------------------------------------------------------- the state

SetTree(t) ==
    /\ isRenderingTree' = t.flag
    /\ renders' = t.renders
    /\ treeRows' = t.rows
    /\ requestDropped' = t.dropped

SetPreview(pv) ==
    /\ previewRuns' = pv.runs
    /\ previewCards' = pv.cards
    /\ previewMsg' = pv.msg

\* renderPreview is not guarded: the model admits MaxPreviewRuns of them at a time
PreviewRoom == Len(previewRuns) < MaxPreviewRuns

RECURSIVE PathOf(_, _)
\* the path of a folder of the vault, read off its parent chain
PathOf(par, f) == IF f = Root THEN <<>> ELSE PathOf(par, par[f]) \o <<FolderName(f)>>

\* the folders of the vault at or below f
Below(ex, par, f) == {x \in Folders : ex[x] /\ isDescendantOf(par, x, f)}

\* a vault holding /1/2 and no other folder
InitFolders ==
    /\ folderExists = [f \in Folders |-> f <= 2]
    /\ folderParent = [f \in Folders |-> IF f = 1 THEN Root ELSE IF f = 2 THEN 1 ELSE None]
    /\ folderPath = [f \in Folders |-> IF f = 1 THEN <<1>> ELSE IF f = 2 THEN <<1, 2>> ELSE <<>>]

\* a vault without files
InitNoFiles ==
    /\ fileExists = [x \in Files |-> FALSE]
    /\ fileParent = [x \in Files |-> None]

\* the view after its constructor: nothing rendered, nothing selected
InitViewState ==
    /\ storeCalls = <<>>
    /\ vaultChanges = 0
    /\ phase = "constructed"
    /\ selectedFolder = None
    /\ activeFile = None
    /\ collapsedFolders = {}
    /\ isRenderingTree = FALSE
    /\ renders = <<>>
    /\ treeRows = <<>>
    /\ requestDropped = FALSE
    /\ previewRuns = <<>>
    /\ previewCards = <<>>
    /\ previewMsg = "none"
    /\ lastNotice = "none"
    /\ lastDrop = [isFolder |-> FALSE, item |-> None, target |-> None]
    /\ dataCollapsedFolders = <<>>
    /\ lastToggle = [path |-> <<>>, before |-> {}]
    /\ sortOrder = "name-asc"
    /\ sortSaves = 0

\* no call of sortFiles or extractPreviewText is followed
\* no createFile call is running and no file is named Untitled
InitNoProbe ==
    /\ creates = <<>>
    /\ untitledNo = [x \in Files |-> -1]

\* no dialog is open and no trash call is pending
InitNoDialog ==
    /\ dialogs = <<>>
    /\ trashCalls = <<>>

\* every file is a Markdown note
InitAllNotes == fileExt = [x \in Files |-> "md"]

\* DEFAULT_DATA.treeWidth
DefaultTreeWidth == 300

\* no drag is under way, and the tree column has its default width
InitNoResize ==
    /\ isResizing = FALSE
    /\ treeWidth = DefaultTreeWidth
    /\ lastMove = [newWidth |-> 0, width |-> 0, applied |-> FALSE]

InitExtra == InitNoDialog /\ InitAllNotes /\ InitNoResize

InitRest ==
    /\ sortArg = <<>>
    /\ sortResult = [order |-> "unsorted", files |-> <<>>]
    /\ content = <<>>
    /\ parts = <<>>
    /\ removeLinkBrackets = FALSE
    /\ previewText = [returned |-> FALSE, text |-> <<>>]
    /\ InitNoProbe
    /\ InitExtra

InitView == InitViewState /\ InitRest

\* ------------------------------------------------------------------ onOpen

\* onOpen up to `await this.renderFileTree()`
OnOpen ==
    /\ phase = "constructed"
    /\ phase' = "opening-tree"
    /\ SetTree(renderFileTree(TreeState, folderExists, folderParent, folderPath,
                              selectedFolder, collapsedFolders))
    /\ UNCHANGED <<storeVars, selVars, previewVars, lastNotice, lastDrop,
                   dataCollapsedFolders, lastToggle, sortOrder, sortSaves, restVars>>

\* onOpen resumes after renderFileTree and calls `await this.renderPreview()`
OnOpenPreview ==
    /\ phase = "tree-rendered"
    /\ PreviewRoom
    /\ phase' = "opening-preview"
    /\ SetPreview(renderPreview(PreviewState, fileExists, fileParent,
                                selectedFolder, activeFile, TRUE))
    /\ UNCHANGED <<storeVars, selVars, treeVars, lastNotice, lastDrop,
                   dataCollapsedFolders, lastToggle, sortOrder, sortSaves, restVars>>

\* onOpen resumes after renderPreview and registers the vault and workspace listeners
OnOpenRegister ==
    /\ phase = "opening-preview"
    /\ \A i \in 1..Len(previewRuns) : ~previewRuns[i].onOpen
    /\ phase' = "open"
    /\ UNCHANGED <<storeVars, selVars, treeVars, previewVars, lastNotice, lastDrop,
                   dataCollapsedFolders, lastToggle, sortOrder, sortSaves, restVars>>

\* ------------------------------------------------------- render resumptions

\* a suspended tree render body resumes
TreeResume(i) ==
    /\ i \in 1..Len(renders)
    /\ SetTree(renderFileTreeResume(TreeState, i, folderExists, folderParent, folderPath,
                                    selectedFolder, collapsedFolders))
    /\ phase' = IF phase = "opening-tree" /\ renders[i].stack = <<>>
                THEN (IF renders[i].failed THEN "open-failed" ELSE "tree-rendered")
                ELSE phase
    /\ UNCHANGED <<storeVars, selVars, previewVars, lastNotice, lastDrop,
                   dataCollapsedFolders, lastToggle, sortOrder, sortSaves, restVars>>

\* the walk throws in the frame that was about to resume
TreeThrow(i) ==
    /\ i \in 1..Len(renders)
    /\ renders[i].stack # <<>>
    /\ ~renders[i].failed
    /\ renders' = [renders EXCEPT ![i] = [stack |-> Pop(renders[i].stack), failed |-> TRUE]]
    /\ UNCHANGED <<storeVars, phase, selVars, isRenderingTree, treeRows, requestDropped,
                   previewVars, lastNotice, lastDrop,
                   dataCollapsedFolders, lastToggle, sortOrder, sortSaves, restVars>>

\* vault.read returns to a suspended preview render
PreviewResume(i) ==
    /\ i \in 1..Len(previewRuns)
    /\ fileExists[previewRuns[i].file]
    /\ SetPreview(renderPreviewResume(PreviewState, i, activeFile))
    /\ UNCHANGED <<storeVars, phase, selVars, treeVars, lastNotice, lastDrop,
                   dataCollapsedFolders, lastToggle, sortOrder, sortSaves, restVars>>

\* vault.read fails (the file is gone, or an I/O error)
PreviewFail(i) ==
    /\ i \in 1..Len(previewRuns)
    /\ SetPreview(renderPreviewFail(PreviewState, i))
    /\ phase' = IF previewRuns[i].onOpen THEN "open-failed" ELSE phase
    /\ UNCHANGED <<storeVars, selVars, treeVars, lastNotice, lastDrop,
                   dataCollapsedFolders, lastToggle, sortOrder, sortSaves, restVars>>

\* ------------------------------------------------------------ user gestures

\* a row is on screen: no folderContent above it carries ftp-collapsed
RECURSIVE RowVisible(_, _)
RowVisible(rows, k) ==
    IF rows[k].container = Root THEN TRUE
    ELSE IF rows[rows[k].container].collapsed THEN FALSE
    ELSE RowVisible(rows, rows[k].container)

Showing == phase \notin {"constructed", "closed", "closed-fired"}

\* a click on the folderHeader that selects the folder and collapses it
FolderClickCollapsing(k) ==
    /\ Showing
    /\ k \in 1..Len(treeRows)
    /\ RowVisible(treeRows, k)
    /\ PreviewRoom
    /\ selectedFolder' = treeRows[k].folder
    /\ collapsedFolders' = collapsedFolders \cup {folderPath[treeRows[k].folder]}
    /\ SetTree(renderFileTree(TreeState, folderExists, folderParent, folderPath,
                              selectedFolder', collapsedFolders'))
    /\ SetPreview(renderPreview(PreviewState, fileExists, fileParent,
                                selectedFolder', activeFile, FALSE))
    /\ UNCHANGED <<storeVars, phase, activeFile, lastNotice, lastDrop,
                   dataCollapsedFolders, lastToggle, sortOrder, sortSaves, restVars>>

\* click on the folderHeader of row k
FolderClick(k) ==
    /\ Showing
    /\ k \in 1..Len(treeRows)
    /\ RowVisible(treeRows, k)
    /\ PreviewRoom
    /\ selectedFolder' = treeRows[k].folder
    /\ SetTree(renderFileTree(TreeState, folderExists, folderParent, folderPath,
                              selectedFolder', collapsedFolders))
    /\ SetPreview(renderPreview(PreviewState, fileExists, fileParent,
                                selectedFolder', activeFile, FALSE))
    /\ UNCHANGED <<storeVars, phase, activeFile, collapsedFolders, lastNotice, lastDrop,
                   dataCollapsedFolders, lastToggle, sortOrder, sortSaves, restVars>>


\* updateActiveHighlight: a card is marked by comparing its filename text
\* with the basename of the active file
updateActiveHighlight(cards, active) ==
    [k \in 1..Len(cards) |->
        [cards[k] EXCEPT !.active =
            (active # None /\ FileBasename(cards[k].file) = FileBasename(active))]]

\* a save that leaves plugin.data.collapsedFolders as it was loaded
ArrayFromNothing(S) == <<>>

\* a constructor that keeps the paths of the folders the vault holds
NewSetOfExisting(a) ==
    {a[i] : i \in {j \in 1..Len(a) : \E f \in Folders : folderExists[f] /\ folderPath[f] = a[j]}}

RECURSIVE ArrayFrom(_)
\* Array.from(set): the members of the set, each once
ArrayFrom(S) ==
    IF S = {} THEN <<>>
    ELSE LET x == CHOOSE y \in S : TRUE IN <<x>> \o ArrayFrom(S \ {x})

\* new Set(array)
NewSet(a) == {a[i] : i \in 1..Len(a)}

\* click on the caret of row k
CaretClick(k) ==
    /\ Showing
    /\ k \in 1..Len(treeRows)
    /\ RowVisible(treeRows, k)
    /\ treeRows[k].caret
    /\ LET willBeCollapsed == ~treeRows[k].collapsed
           path == folderPath[treeRows[k].folder]
       IN  /\ treeRows' = [treeRows EXCEPT ![k].collapsed = willBeCollapsed]
           /\ collapsedFolders' = IF willBeCollapsed THEN collapsedFolders \cup {path}
                                  ELSE collapsedFolders \ {path}
           /\ lastToggle' = [path |-> path, before |-> collapsedFolders]
    /\ dataCollapsedFolders' = ArrayFrom(collapsedFolders')
    /\ UNCHANGED <<storeVars, phase, selectedFolder, activeFile, isRenderingTree, renders,
                   requestDropped, previewVars, lastNotice, lastDrop, sortOrder, sortSaves, restVars>>

\* handleDrop for a dragged folder without the check `draggedItem === item`
FolderDropVerdictNoSelfCheck(par, draggedItem, item) ==
    IF isDescendantOf(par, item, draggedItem) THEN "into-descendant"
    ELSE IF par[draggedItem] = item THEN "no-op"
    ELSE "move"

\* handleDrop for a dragged folder whose descendant check looks at the
\* parent of the target only
FolderDropVerdictShallow(par, draggedItem, item) ==
    IF draggedItem = item THEN "self-move"
    ELSE IF ParentOf(par, item) = draggedItem THEN "into-descendant"
    ELSE IF par[draggedItem] = item THEN "no-op"
    ELSE "move"

\* handleDrop for a dragged file without the check `draggedItem.parent === item`
FileDropVerdictNoParentCheck(fpar, draggedItem, item) == "move"

\* the checks of handleDrop for a dragged folder, in the order of the code
FolderDropVerdict(par, draggedItem, item) ==
    IF draggedItem = item THEN "self-move"
    ELSE IF isDescendantOf(par, item, draggedItem) THEN "into-descendant"
    ELSE IF par[draggedItem] = item THEN "no-op"
    ELSE "move"

\* the check of handleDrop for a dragged file
FileDropVerdict(fpar, draggedItem, item) ==
    IF fpar[draggedItem] = item THEN "no-op" ELSE "move"

\* a drop handler for folders that calls renderFileTree itself once it has
\* handed the rename to the store
FolderDropThenRender(d, k) ==
    /\ Showing
    /\ k \in 1..Len(treeRows)
    /\ RowVisible(treeRows, k)
    /\ d \in Folders
    /\ folderExists[d]
    /\ \E j \in 1..Len(treeRows) : treeRows[j].folder = d /\ RowVisible(treeRows, j)
    /\ Len(storeCalls) < MaxStoreCalls
    /\ LET item == treeRows[k].folder
           verdict == FolderDropVerdict(folderParent, d, item)
       IN  /\ lastNotice' = IF verdict = "move" THEN lastNotice ELSE verdict
           /\ lastDrop' = [isFolder |-> TRUE, item |-> d, target |-> item]
           /\ UNCHANGED <<dataCollapsedFolders, lastToggle, sortOrder, sortSaves, restVars>>
           /\ storeCalls' = IF verdict = "move"
                            THEN Append(storeCalls, [isFolder |-> TRUE, item |-> d,
                                                     dest |-> item, menu |-> FALSE])
                            ELSE storeCalls
           /\ IF verdict = "move"
              THEN SetTree(renderFileTree(TreeState, folderExists, folderParent, folderPath,
                                          selectedFolder, collapsedFolders))
              ELSE UNCHANGED treeVars
    /\ UNCHANGED <<folderExists, folderParent, folderPath, fileExists, fileParent, vaultChanges,
                   phase, selVars, previewVars, restVars>>

\* drop of the dragged folder d on the folderHeader of row k
FolderDrop(d, k) ==
    /\ Showing
    /\ k \in 1..Len(treeRows)
    /\ RowVisible(treeRows, k)
    /\ d \in Folders
    /\ folderExists[d]
    /\ \E j \in 1..Len(treeRows) : treeRows[j].folder = d /\ RowVisible(treeRows, j)
    /\ Len(storeCalls) < MaxStoreCalls
    /\ LET item == treeRows[k].folder
           verdict == FolderDropVerdict(folderParent, d, item)
       IN  /\ lastNotice' = IF verdict = "move" THEN lastNotice ELSE verdict
           /\ lastDrop' = [isFolder |-> TRUE, item |-> d, target |-> item]
           /\ UNCHANGED <<dataCollapsedFolders, lastToggle, sortOrder, sortSaves, restVars>>
           /\ storeCalls' = IF verdict = "move"
                            THEN Append(storeCalls, [isFolder |-> TRUE, item |-> d, dest |-> item, menu |-> FALSE])
                            ELSE storeCalls
    /\ UNCHANGED <<folderExists, folderParent, folderPath, fileExists, fileParent, vaultChanges,
                   phase, selVars, treeVars, previewVars, restVars>>

\* drop of the dragged preview card of file x on the folderHeader of row k
FileDrop(x, k) ==
    /\ Showing
    /\ k \in 1..Len(treeRows)
    /\ RowVisible(treeRows, k)
    /\ x \in Files
    /\ fileExists[x]
    /\ \E j \in 1..Len(previewCards) : previewCards[j].file = x
    /\ Len(storeCalls) < MaxStoreCalls
    /\ LET item == treeRows[k].folder
           verdict == FileDropVerdict(fileParent, x, item)
       IN  /\ storeCalls' = IF verdict = "move"
                            THEN Append(storeCalls, [isFolder |-> FALSE, item |-> x, dest |-> item, menu |-> FALSE])
                            ELSE storeCalls
           /\ lastDrop' = [isFolder |-> FALSE, item |-> x, target |-> item]
           /\ UNCHANGED <<dataCollapsedFolders, lastToggle, sortOrder, sortSaves, restVars>>
    /\ UNCHANGED <<folderExists, folderParent, folderPath, fileExists, fileParent, vaultChanges,
                   phase, selVars, treeVars, previewVars, lastNotice, restVars>>

\* the folder of the vault at path p: getAbstractFileByPath, null when none
FolderAt(ex, paths, p) ==
    IF p = <<>> THEN Root
    ELSE IF \E f \in Folders : ex[f] /\ paths[f] = p
         THEN CHOOSE f \in Folders : ex[f] /\ paths[f] = p
         ELSE None

\* the texts typed into the RenameModal that end in the folder's own name:
\* one or two path segments and a "/" before it
RenameTexts(item) ==
    {<<a, FolderName(item)>> : a \in Folders}
        \cup {<<a, b, FolderName(item)>> : a \in Folders, b \in Folders}

\* "Rename" of the context menu of row k, submitted with newName: the path
\* is put together from the parent's path and the text, and goes to the store
RenameFolder(k, newName) ==
    /\ Showing
    /\ k \in 1..Len(treeRows)
    /\ RowVisible(treeRows, k)
    /\ folderExists[treeRows[k].folder]
    /\ Len(storeCalls) < MaxStoreCalls
    /\ newName \in RenameTexts(treeRows[k].folder)
    /\ LET item == treeRows[k].folder
           parentPath == IF folderParent[item] = Root THEN <<>>
                         ELSE folderPath[folderParent[item]]
           newPath == parentPath \o newName
       IN  storeCalls' = Append(storeCalls,
                                [isFolder |-> TRUE, item |-> item,
                                 dest |-> FolderAt(folderExists, folderPath, Pop(newPath)),
                                 menu |-> TRUE])
    /\ UNCHANGED <<folderExists, folderParent, folderPath, fileExists, fileParent, vaultChanges,
                   phase, selVars, treeVars, previewVars, lastNotice, lastDrop,
                   dataCollapsedFolders, lastToggle, sortOrder, sortSaves, restVars>>

\* ------------------------------------------------------ vault notifications

Listening == phase = "open"

\* vault.on("create") and vault.on("delete"): renderFileTree only
OnVaultCreateDelete ==
    /\ IF Listening
       THEN SetTree(renderFileTree(TreeState, folderExists', folderParent', folderPath',
                                   selectedFolder, collapsedFolders))
       ELSE UNCHANGED treeVars
    /\ UNCHANGED previewVars

\* vault.on("rename"): renderFileTree, then renderPreview
OnVaultRename ==
    IF Listening
    THEN /\ SetTree(renderFileTree(TreeState, folderExists', folderParent', folderPath',
                                   selectedFolder, collapsedFolders))
         /\ SetPreview(renderPreview(PreviewState, fileExists', fileParent',
                                     selectedFolder, activeFile, FALSE))
    ELSE UNCHANGED <<treeVars, previewVars, restVars>>

\* a move that puts dest below f, instead of f below dest
MoveFolderSwapped(f, dest) ==
    /\ folderParent' = IF dest = Root THEN [folderParent EXCEPT ![f] = dest]
                       ELSE [folderParent EXCEPT ![dest] = f]
    /\ folderPath' = folderPath
    /\ UNCHANGED <<folderExists, fileExists, fileParent, restVars>>

\* the vault moves folder f below dest
MoveFolder(f, dest) ==
    /\ folderParent' = [folderParent EXCEPT ![f] = dest]
    /\ folderPath' = [x \in Folders |->
                        IF folderExists[x] THEN PathOf(folderParent', x) ELSE folderPath[x]]
    /\ UNCHANGED <<folderExists, fileExists, fileParent, restVars>>

\* the vault moves file x into dest
MoveFile(x, dest) ==
    /\ fileParent' = [fileParent EXCEPT ![x] = dest]
    /\ UNCHANGED <<folderExists, folderParent, folderPath, fileExists, restVars>>

\* the vault can carry out the rename the view asked for: the item and the
\* destination are there, and the destination holds no file of the same name
RenameValid(c) ==
    /\ InVault(folderExists, c.dest)
    /\ IF c.isFolder
       THEN folderExists[c.item] /\ ~isDescendantOf(folderParent, c.dest, c.item)
       ELSE /\ fileExists[c.item]
            /\ \A y \in Files \ {c.item} :
                   ~(fileExists[y] /\ fileParent[y] = c.dest
                     /\ FileBasename(y) = FileBasename(c.item)
                     /\ fileExt[y] = fileExt[c.item])

\* `await this.app.vault.rename(...)` of handleDrop returns: the item has moved
\* and the vault has sent its rename notification
StoreRenameDone ==
    /\ storeCalls # <<>>
    /\ RenameValid(Head(storeCalls))
    /\ Listening => PreviewRoom
    /\ vaultChanges < MaxVaultChanges
    /\ vaultChanges' = vaultChanges + 1
    /\ storeCalls' = Tail(storeCalls)
    /\ IF Head(storeCalls).isFolder
       THEN MoveFolder(Head(storeCalls).item, Head(storeCalls).dest)
       ELSE MoveFile(Head(storeCalls).item, Head(storeCalls).dest)
    /\ UNCHANGED <<phase, selVars, lastNotice, lastDrop,
                   dataCollapsedFolders, lastToggle, sortOrder, sortSaves, restVars>>
    /\ OnVaultRename

\* `await this.app.vault.rename(...)` of handleDrop throws: the catch block
\* shows its notice
StoreRenameFail ==
    /\ storeCalls # <<>>
    /\ storeCalls' = Tail(storeCalls)
    /\ lastNotice' = IF Head(storeCalls).menu THEN lastNotice
                     ELSE IF Head(storeCalls).isFolder THEN "move-folder-failed"
                     ELSE "move-file-failed"
    /\ UNCHANGED <<folderExists, folderParent, folderPath, fileExists, fileParent, vaultChanges,
                   phase, selVars, treeVars, previewVars, lastDrop,
                   dataCollapsedFolders, lastToggle, sortOrder, sortSaves, restVars>>

\* ---------------------------------------- changes from outside of the view

\* Changes from outside come before the view opens or once onOpen has
\* returned: after its wait for the icon plugin, onOpen waits for no I/O.
ExtRoom ==
    /\ vaultChanges < MaxVaultChanges
    /\ phase \notin {"opening-tree", "tree-rendered", "opening-preview"}

ExtCreateFolder(f, dest) ==
    /\ ExtRoom
    /\ ~folderExists[f] /\ folderParent[f] = None
    /\ InVault(folderExists, dest)
    /\ vaultChanges' = vaultChanges + 1
    /\ folderExists' = [folderExists EXCEPT ![f] = TRUE]
    /\ folderParent' = [folderParent EXCEPT ![f] = dest]
    /\ folderPath' = [folderPath EXCEPT ![f] = PathBelow(folderPath, dest, f)]
    /\ UNCHANGED <<fileExists, fileParent, storeCalls, phase, selVars, lastNotice, lastDrop,
                   dataCollapsedFolders, lastToggle, sortOrder, sortSaves, restVars>>
    /\ OnVaultCreateDelete

ExtDeleteFolder(f) ==
    /\ ExtRoom
    /\ folderExists[f]
    /\ vaultChanges' = vaultChanges + 1
    /\ folderExists' = [x \in Folders |->
                          folderExists[x] /\ x \notin Below(folderExists, folderParent, f)]
    /\ fileExists' = [x \in Files |->
                        fileExists[x] /\ fileParent[x] \notin Below(folderExists, folderParent, f)]
    /\ UNCHANGED <<folderParent, folderPath, fileParent, storeCalls, phase, selVars, lastNotice, lastDrop,
                   dataCollapsedFolders, lastToggle, sortOrder, sortSaves, restVars>>
    /\ OnVaultCreateDelete

ExtMoveFolder(f, dest) ==
    /\ ExtRoom
    /\ folderExists[f]
    /\ InVault(folderExists, dest)
    /\ dest # folderParent[f]
    /\ ~isDescendantOf(folderParent, dest, f)
    /\ Listening => PreviewRoom
    /\ vaultChanges' = vaultChanges + 1
    /\ MoveFolder(f, dest)
    /\ UNCHANGED <<storeCalls, phase, selVars, lastNotice, lastDrop,
                   dataCollapsedFolders, lastToggle, sortOrder, sortSaves, restVars>>
    /\ OnVaultRename

ExtCreateFile(x, dest) ==
    /\ ExtRoom
    /\ ~fileExists[x] /\ fileParent[x] = None
    /\ InVault(folderExists, dest)
    /\ vaultChanges' = vaultChanges + 1
    /\ fileExists' = [fileExists EXCEPT ![x] = TRUE]
    /\ fileParent' = [fileParent EXCEPT ![x] = dest]
    /\ UNCHANGED <<folderExists, folderParent, folderPath, storeCalls, phase, selVars, lastNotice, lastDrop,
                   dataCollapsedFolders, lastToggle, sortOrder, sortSaves, restVars>>
    /\ OnVaultCreateDelete

ExtDeleteFile(x) ==
    /\ ExtRoom
    /\ fileExists[x]
    /\ vaultChanges' = vaultChanges + 1
    /\ fileExists' = [fileExists EXCEPT ![x] = FALSE]
    /\ UNCHANGED <<folderExists, folderParent, folderPath, fileParent, storeCalls, phase,
                   selVars, lastNotice, lastDrop,
                   dataCollapsedFolders, lastToggle, sortOrder, sortSaves, restVars>>
    /\ OnVaultCreateDelete

ExtMoveFile(x, dest) ==
    /\ ExtRoom
    /\ fileExists[x]
    /\ InVault(folderExists, dest)
    /\ dest # fileParent[x]
    /\ Listening => PreviewRoom
    /\ vaultChanges' = vaultChanges + 1
    /\ MoveFile(x, dest)
    /\ UNCHANGED <<storeCalls, phase, selVars, lastNotice, lastDrop,
                   dataCollapsedFolders, lastToggle, sortOrder, sortSaves, restVars>>
    /\ OnVaultRename

\* a file-open listener that renders the tree and the preview whether or not
\* the folder changes
FileOpenAlwaysRenders(x) ==
    /\ Listening
    /\ fileExists[x]
    /\ PreviewRoom
    /\ activeFile' = x
    /\ selectedFolder' = fileParent[x]
    /\ SetTree(renderFileTree(TreeState, folderExists, folderParent, folderPath,
                              selectedFolder', collapsedFolders))
    /\ SetPreview(renderPreview(PreviewState, fileExists, fileParent,
                                selectedFolder', activeFile', FALSE))
    /\ UNCHANGED <<storeVars, phase, collapsedFolders, lastNotice, lastDrop,
                   dataCollapsedFolders, lastToggle, sortOrder, sortSaves, restVars>>

\* workspace.on("file-open") with a file that has a parent
FileOpen(x) ==
    /\ Listening
    /\ fileExists[x]
    /\ PreviewRoom
    /\ activeFile' = x
    /\ selectedFolder' = fileParent[x]
    /\ IF selectedFolder = selectedFolder'
       THEN /\ previewCards' = updateActiveHighlight(previewCards, activeFile')
            /\ UNCHANGED <<treeVars, previewRuns, previewMsg, restVars>>
       ELSE /\ SetTree(renderFileTree(TreeState, folderExists, folderParent, folderPath,
                                      selectedFolder', collapsedFolders))
            /\ SetPreview(renderPreview(PreviewState, fileExists, fileParent,
                                        selectedFolder', activeFile', FALSE))
    /\ UNCHANGED <<storeVars, phase, collapsedFolders, lastNotice, lastDrop,
                   dataCollapsedFolders, lastToggle, sortOrder, sortSaves, restVars>>

\* workspace.on("file-open") with null (the last file was closed)
FileOpenNull ==
    /\ Listening
    /\ UNCHANGED vars

\* the interval of startIconizeDataPolling finds the icon data changed, or the
\* Folder icons dropdown of the settings tab changes: renderFileTree
IconRefresh ==
    /\ IF phase = "open" THEN TRUE ELSE Showing /\ phase # "opening-tree"
    /\ ExtRoom
    /\ vaultChanges' = vaultChanges + 1
    /\ SetTree(renderFileTree(TreeState, folderExists, folderParent, folderPath,
                              selectedFolder, collapsedFolders))
    /\ UNCHANGED <<folderExists, folderParent, folderPath, fileExists, fileParent, storeCalls,
                   phase, selVars, previewVars, lastNotice, lastDrop,
                   dataCollapsedFolders, lastToggle, sortOrder, sortSaves, restVars>>

\* the view is closed: the callbacks given to register() run, and the one of
\* onOpen sets the 1000 ms timer; an onOpen that was rejected has not come to
\* its register() call, and no timer is set ("closed-fired": none is pending)
Close ==
    /\ phase \in {"open", "open-failed"}
    /\ phase' = IF phase = "open" THEN "closed" ELSE "closed-fired"
    /\ UNCHANGED <<storeVars, selVars, treeVars, previewVars, lastNotice, lastDrop,
                   dataCollapsedFolders, lastToggle, sortOrder, sortSaves, restVars>>

\* the timer set by the registered callback fires: renderFileTree
TimerFire ==
    /\ phase = "closed"
    /\ phase' = "closed-fired"
    /\ SetTree(renderFileTree(TreeState, folderExists, folderParent, folderPath,
                              selectedFolder, collapsedFolders))
    /\ UNCHANGED <<storeVars, selVars, previewVars, lastNotice, lastDrop,
                   dataCollapsedFolders, lastToggle, sortOrder, sortSaves, restVars>>

\* an entry of the sort menu is picked: updateSort sets plugin.data.sortOrder
\* and awaits savePluginData
SortMenu(o) ==
    /\ Showing
    /\ selectedFolder # None
    /\ o \in {"name-asc", "name-desc"}
    /\ sortSaves < MaxSortSaves
    /\ sortOrder' = o
    /\ sortSaves' = sortSaves + 1
    /\ UNCHANGED <<storeVars, phase, selVars, treeVars, previewVars, lastNotice, lastDrop,
                   dataCollapsedFolders, lastToggle, restVars>>

\* savePluginData of updateSort has returned: renderPreview
SortSaved ==
    /\ sortSaves > 0
    /\ PreviewRoom
    /\ sortSaves' = sortSaves - 1
    /\ SetPreview(renderPreview(PreviewState, fileExists, fileParent,
                                selectedFolder, activeFile, FALSE))
    /\ UNCHANGED <<storeVars, phase, selVars, treeVars, lastNotice, lastDrop,
                   dataCollapsedFolders, lastToggle, sortOrder, restVars>>

\* a new view is constructed for the leaf and takes the place of the closed
\* one: its fields have their initial values, its CollapseSet comes from
\* plugin.data
Reopen ==
    /\ phase \in {"closed", "closed-fired"}
    /\ renders = <<>> /\ previewRuns = <<>> /\ storeCalls = <<>>
    /\ phase' = "constructed"
    /\ selectedFolder' = None
    /\ activeFile' = None
    /\ collapsedFolders' = NewSet(dataCollapsedFolders)
    /\ isRenderingTree' = FALSE
    /\ renders' = <<>>
    /\ treeRows' = <<>>
    /\ requestDropped' = FALSE
    /\ previewRuns' = <<>>
    /\ previewCards' = <<>>
    /\ previewMsg' = "none"
    /\ lastToggle' = [path |-> <<>>, before |-> {}]
    /\ sortSaves' = 0
    /\ UNCHANGED <<folderExists, folderParent, folderPath, fileExists, fileParent, storeCalls,
                   vaultChanges, lastNotice, lastDrop, dataCollapsedFolders, sortOrder, restVars>>

\* ----------------------------------------------------------- specification

\* The tree pane over a vault of folders: every trigger of renderFileTree,
\* and folders created, deleted and moved from outside.
InitTree == InitFolders /\ InitNoFiles /\ InitView

NextTree ==
    \/ OnOpen
    \/ OnOpenPreview
    \/ OnOpenRegister
    \/ \E i \in 1..Len(renders) : TreeResume(i)
    \/ \E i \in 1..Len(renders) : TreeThrow(i)
    \/ \E k \in 1..Len(treeRows) : FolderClick(k)
    \/ \E f \in Folders, dest \in Folders \cup {Root} : ExtCreateFolder(f, dest)
    \/ \E f \in Folders : ExtDeleteFolder(f)
    \/ \E f \in Folders, dest \in Folders \cup {Root} : ExtMoveFolder(f, dest)
    \/ IconRefresh
    \/ Close
    \/ TimerFire

SpecTree == InitTree /\ [][NextTree]_vars

\* The preview pane: folder clicks and file-open over a vault whose files are
\* created, deleted and moved from outside.
InitOneFile ==
    /\ fileExists = [x \in Files |-> x = 1]
    /\ fileParent = [x \in Files |-> IF x = 1 THEN 1 ELSE None]

InitPreview == InitFolders /\ InitOneFile /\ InitView

NextPreview ==
    \/ OnOpen
    \/ OnOpenPreview
    \/ OnOpenRegister
    \/ \E i \in 1..Len(renders) : TreeResume(i)
    \/ \E i \in 1..Len(previewRuns) : PreviewResume(i)
    \/ \E i \in 1..Len(previewRuns) : PreviewFail(i)
    \/ \E k \in 1..Len(treeRows) : FolderClick(k)
    \/ \E x \in Files : FileOpen(x)
    \/ \E x \in Files, dest \in Folders \cup {Root} : ExtCreateFile(x, dest)
    \/ \E x \in Files : ExtDeleteFile(x)
    \/ \E x \in Files, dest \in Folders \cup {Root} : ExtMoveFile(x, dest)
    \/ \E f \in Folders : ExtDeleteFolder(f)

SpecPreview == InitPreview /\ [][NextPreview]_vars

\* a vault holding the chain /1/2/.../NFolders
InitChain ==
    /\ folderExists = [f \in Folders |-> TRUE]
    /\ folderParent = [f \in Folders |-> f - 1]
    /\ folderPath = [f \in Folders |-> PathOf(folderParent, f)]

\* Drag and drop of folder rows and preview cards; the moves rearrange the chain.
InitDrop == InitChain /\ InitOneFile /\ InitView

\* a click on the folderHeader of row k that finds no tree render suspended
FolderClickAtRest(k) == renders = <<>> /\ FolderClick(k)

NextDrop ==
    \/ OnOpen
    \/ OnOpenPreview
    \/ OnOpenRegister
    \/ \E i \in 1..Len(renders) : TreeResume(i)
    \/ \E i \in 1..Len(previewRuns) : PreviewResume(i)
    \/ \E k \in 1..Len(treeRows) : FolderClickAtRest(k)
    \/ \E d \in Folders, k \in 1..Len(treeRows) : FolderDrop(d, k)
    \/ \E x \in Files, k \in 1..Len(treeRows) : FileDrop(x, k)
    \/ StoreRenameDone
    \/ StoreRenameFail

SpecDrop == InitDrop /\ [][NextDrop]_vars

\* Drops of folders together with the Rename entry of the folder context menu.
NextMenu ==
    \/ OnOpen
    \/ OnOpenPreview
    \/ OnOpenRegister
    \/ \E i \in 1..Len(renders) : TreeResume(i)
    \/ \E d \in Folders, k \in 1..Len(treeRows) : FolderDrop(d, k)
    \/ StoreRenameDone
    \/ StoreRenameFail
    \/ \E k \in 1..Len(treeRows) : \E newName \in RenameTexts(treeRows[k].folder) :
          RenameFolder(k, newName)

SpecMenu == InitDrop /\ [][NextMenu]_vars

\* a vault holding /1/2 and the sibling /3
InitSiblings ==
    /\ folderExists = [f \in Folders |-> f <= 3]
    /\ folderParent = [f \in Folders |-> IF f = 2 THEN 1 ELSE IF f <= 3 THEN Root ELSE None]
    /\ folderPath = [f \in Folders |-> IF f <= 3 THEN PathOf(folderParent, f) ELSE <<>>]

\* Drops and renames of folders over the vault /1/2, /3.
InitSiblingsView == InitSiblings /\ InitOneFile /\ InitView

SpecSiblings == InitSiblingsView /\ [][NextMenu]_vars

\* The collapse carets: toggles, tree renders, folders changed from outside,
\* and the view closed and opened again.
NextCollapse ==
    \/ OnOpen
    \/ OnOpenPreview
    \/ OnOpenRegister
    \/ \E i \in 1..Len(renders) : TreeResume(i)
    \/ \E k \in 1..Len(treeRows) : CaretClick(k)
    \/ \E k \in 1..Len(treeRows) : FolderClick(k)
    \/ \E f \in Folders, dest \in Folders \cup {Root} : ExtCreateFolder(f, dest)
    \/ \E f \in Folders : ExtDeleteFolder(f)
    \/ \E f \in Folders, dest \in Folders \cup {Root} : ExtMoveFolder(f, dest)
    \/ Close
    \/ TimerFire
    \/ \E o \in {"name-asc", "name-desc"} : SortMenu(o)
    \/ SortSaved
    \/ Reopen

SpecCollapse == InitTree /\ [][NextCollapse]_vars

\* the resumptions of the tree render are jobs of the event loop: a pending
\* one is run
FairSpecTree == SpecTree /\ WF_vars(\E i \in 1..Len(renders) : TreeResume(i))

\* ------------------------------------------------------- the render token

\* C1: at most one body of renderFileTree (between setting and clearing
\* isRenderingTree) is executing at any time, whatever the interleaving of
\* the folder click, the vault notifications, file-open, the timer, the icon
\* poll and the folder-icon setting.
AtMostOneTreeRender == Len(renders) <= 1

\* a render body is suspended and a trigger has called renderFileTree meanwhile
TriggerDuringRender == Len(renders) = 1 /\ requestDropped /\ phase = "open"

\* a step in which a trigger of renderFileTree ran: a selection changed, the
\* vault or the icon data changed, or the timer fired
TriggerStep ==
    \/ selectedFolder' # selectedFolder
    \/ vaultChanges' # vaultChanges
    \/ phase = "closed" /\ phase' = "closed-fired"

\* C2: a renderFileTree call made while a tree render is in flight returns
\* without rendering and is not queued: the call leaves the render in flight
\* and the rows as they are, and the step that releases the token starts no
\* render.
DroppedNotQueued ==
    [][/\ (isRenderingTree /\ TriggerStep) =>
            (isRenderingTree' /\ renders' = renders /\ treeRows' = treeRows)
       /\ (isRenderingTree /\ ~isRenderingTree') =>
            (renders' = <<>> /\ treeRows' = treeRows)]_vars

\* the token has been released after a request was dropped, and nothing renders
ReleasedAfterDrop == ~isRenderingTree /\ requestDropped /\ renders = <<>>

\* C3: the token is released on the success path and on the failure path:
\* it is held only while a render body is executing, and every render that
\* starts clears it, also when the walk throws.
TokenReleased ==
    /\ [](isRenderingTree <=> renders # <<>>)
    /\ (isRenderingTree ~> ~isRenderingTree)

\* the walk of onOpen threw, and a later call of renderFileTree is rendering
RenderAfterFailure == phase = "open-failed" /\ isRenderingTree /\ Len(renders) = 1

\* ------------------------------------------------------ the rendered tree

\* the folder whose folderContent holds row k (Root for treeContainer)
RowParent(rows, k) ==
    IF rows[k].container = Root THEN Root ELSE rows[rows[k].container].folder

\* no render, no store call and no timer is pending, and the listeners are registered
Quiescent ==
    /\ phase = "open"
    /\ renders = <<>>
    /\ previewRuns = <<>>
    /\ storeCalls = <<>>

\* C5: whenever no tree render is in flight, the rendered tree of the open
\* view holds each folder at most once, also after a folder was moved while
\* a render was suspended.
NoDuplicateRows ==
    (phase = "open" /\ ~isRenderingTree) =>
        \A j, k \in 1..Len(treeRows) : treeRows[j].folder = treeRows[k].folder => j = k

\* C6: once every render has finished and nothing is pending, the rendered
\* rows and their nesting are the folder hierarchy of the vault.
TreeEventuallyConsistent ==
    Quiescent =>
        /\ \A j, k \in 1..Len(treeRows) : treeRows[j].folder = treeRows[k].folder => j = k
        /\ {<<treeRows[k].folder, RowParent(treeRows, k)>> : k \in 1..Len(treeRows)}
             = {<<f, folderParent[f]>> : f \in {g \in Folders : folderExists[g]}}

\* --------------------------------------------------------- the preview pane

\* the files whose cards are in previewContent
CardFiles == {previewCards[k].file : k \in 1..Len(previewCards)}

\* C4: once every renderPreview call has completed, previewContent of the
\* open view holds at most one card per file, however the calls overlapped.
NoDuplicateCards ==
    (phase = "open" /\ previewRuns = <<>>) =>
        \A j, k \in 1..Len(previewCards) :
            previewCards[j].file = previewCards[k].file => j = k

\* C7: once the renders that a change of the vault has set off have finished,
\* the open view shows a card for each file of the selected folder and for
\* no other file.
PreviewEventuallyFresh ==
    Quiescent =>
        CardFiles = (IF selectedFolder = None THEN {}
                     ELSE FilesOf(fileExists, fileParent, selectedFolder))

\* ------------------------------------------------------------ drag and drop

\* path p is a proper prefix of path q
ProperPrefix(p, q) == Len(p) < Len(q) /\ SubSeq(q, 1, Len(p)) = p

\* the drop handler has shown no notice but n, and has left the vault and
\* the queue of rename calls as they were
RejectedWith(n) ==
    /\ lastNotice' = n
    /\ storeCalls' = storeCalls
    /\ UNCHANGED <<folderExists, folderParent, folderPath, fileExists, fileParent>>

\* C8: a drop of folder f on f itself shows the self-move notice, not the
\* into-descendant notice, and issues no rename to the store.
SelfDropRejected ==
    [][\A d \in Folders : \A k \in 1..Len(treeRows) :
          (FolderDrop(d, k) /\ treeRows[k].folder = d) => RejectedWith("self-move")]_vars

\* folder f has been dropped on its own row and the self-move notice is up
SelfDropSeen ==
    /\ lastDrop.isFolder
    /\ lastDrop.item = lastDrop.target
    /\ lastNotice = "self-move"

\* C9: a drop of folder f on a folder whose path lies below the path of f, at
\* any depth, shows the into-descendant notice and issues no rename to the store.
DescendantDropRejected ==
    [][\A d \in Folders : \A k \in 1..Len(treeRows) :
          (FolderDrop(d, k) /\ ProperPrefix(folderPath[d], folderPath[treeRows[k].folder]))
              => RejectedWith("into-descendant")]_vars

\* folder f has been dropped on a folder two levels below it and the
\* into-descendant notice is up
DeepDescendantDropSeen ==
    /\ lastDrop.isFolder
    /\ lastDrop.target \in Folders
    /\ ProperPrefix(folderPath[lastDrop.item], folderPath[lastDrop.target])
    /\ Len(folderPath[lastDrop.target]) >= Len(folderPath[lastDrop.item]) + 2
    /\ lastNotice = "into-descendant"

\* C10: a drop of an item on the folder that is its parent issues no rename
\* to the store and moves nothing; a folder gets the already-there notice, a
\* file gets no notice.
ParentDropNoOp ==
    [][/\ \A d \in Folders : \A k \in 1..Len(treeRows) :
             (FolderDrop(d, k) /\ folderParent[d] = treeRows[k].folder)
                 => RejectedWith("no-op")
       /\ \A x \in Files : \A k \in 1..Len(treeRows) :
             (FileDrop(x, k) /\ fileParent[x] = treeRows[k].folder)
                 => RejectedWith(lastNotice)]_vars

\* a file has been dropped on the folder it lies in, after a folder was
\* dropped on its parent, and no rename call is pending
ParentDropSeen ==
    /\ ~lastDrop.isFolder
    /\ lastDrop.item \in Files
    /\ fileParent[lastDrop.item] = lastDrop.target
    /\ lastNotice = "no-op"
    /\ storeCalls = <<>>
    /\ vaultChanges = 0

\* ----------------------------------------------------- moves and the store

\* path p is path q or a prefix of it
Prefix(p, q) == Len(p) <= Len(q) /\ SubSeq(q, 1, Len(p)) = p

\* C11: every rename of a folder that the view has handed to the store has a
\* destination folder that is neither the folder itself nor a folder below it.
StoreCallsValidated ==
    \A i \in 1..Len(storeCalls) :
        (storeCalls[i].isFolder /\ storeCalls[i].dest \in Folders) =>
            ~Prefix(folderPath[storeCalls[i].item], folderPath[storeCalls[i].dest])

RECURSIVE ReachesRoot(_, _, _)
\* the chain of parents of f ends at the root within n steps
ReachesRoot(par, f, n) ==
    IF f = Root THEN TRUE
    ELSE IF n = 0 \/ f = None THEN FALSE
    ELSE ReachesRoot(par, par[f], n - 1)

RECURSIVE PathsFrom(_, _, _, _, _)
\* the paths of the folders found by listing the children of f, then theirs,
\* n levels down; prefix is the path of f
PathsFrom(ex, par, f, prefix, n) ==
    IF n = 0 THEN {}
    ELSE UNION {{prefix \o <<FolderName(c)>>}
                  \cup PathsFrom(ex, par, c, prefix \o <<FolderName(c)>>, n - 1)
                : c \in SubFolders(ex, par, f)}

\* the hierarchy read from the root
ListRoot(ex, par) == PathsFrom(ex, par, Root, <<>>, NFolders)

\* the vault holds /1/2 and /3 and no rename is pending
SiblingsVault ==
    /\ ListRoot(folderExists, folderParent) = {<<1>>, <<1, 2>>, <<3>>}
    /\ storeCalls = <<>>

\* C13: in the vault /1/2, /3 a drop of /1 on /3 passes the checks and hands
\* the store exactly one rename, of /1 into /3; once the store has carried it
\* out, the hierarchy read from the root holds /3/1/2 and holds /1 no more.
SiblingMoveSucceeds ==
    [][/\ (SiblingsVault /\ \E k \in 1..Len(treeRows) :
                                treeRows[k].folder = 3 /\ FolderDrop(1, k))
            => /\ storeCalls' = <<[isFolder |-> TRUE, item |-> 1, dest |-> 3, menu |-> FALSE]>>
               /\ lastNotice' = lastNotice
       /\ (/\ ListRoot(folderExists, folderParent) = {<<1>>, <<1, 2>>, <<3>>}
           /\ storeCalls = <<[isFolder |-> TRUE, item |-> 1, dest |-> 3, menu |-> FALSE]>>
           /\ StoreRenameDone)
            => /\ ListRoot(folderExists', folderParent') = {<<3>>, <<3, 1>>, <<3, 1, 2>>}
               /\ storeCalls' = <<>>]_vars

\* /1 has been dropped on /3 and the store has moved it
SiblingMoveSeen ==
    /\ lastDrop = [isFolder |-> TRUE, item |-> 1, target |-> 3]
    /\ vaultChanges = 1
    /\ storeCalls = <<>>
    /\ ListRoot(folderExists, folderParent) = {<<3>>, <<3, 1>>, <<3, 1, 2>>}

\* ------------------------------------------------------ the descendant walk

\* a vault of NFolders folders in any hierarchy without a cycle
InitAnyVault ==
    /\ folderExists = [f \in Folders |-> TRUE]
    /\ folderParent \in [Folders -> Folders \cup {Root}]
    /\ \A f \in Folders : ReachesRoot(folderParent, f, NFolders)
    /\ folderPath = [f \in Folders |-> PathOf(folderParent, f)]

\* Drops and renames of folders over any vault.
InitAnyVaultView == InitAnyVault /\ InitOneFile /\ InitView

SpecAnyVault == InitAnyVaultView /\ [][NextMenu]_vars

\* the walk of isDescendantOf(possibleDescendant, possibleAncestor) in the
\* vault as it is, given more iterations than there are folders
WalkOf(possibleDescendant, possibleAncestor) ==
    isDescendantOfWalk(folderParent, possibleAncestor,
                       [current |-> possibleDescendant, visited |-> <<>>,
                        done |-> FALSE, result |-> FALSE],
                       NFolders + 2)

\* C14: for every pair of folders the walk of isDescendantOf returns: it is
\* on no folder twice, it is on at most the folders from the destination up
\* to the root, and it answers whether the ancestor lies on that chain.
DescendantWalkTerminates ==
    \A d \in Folders : \A a \in Folders :
        LET w == WalkOf(d, a) IN
        /\ w.done
        /\ \A i, j \in 1..Len(w.visited) : w.visited[i] = w.visited[j] => i = j
        /\ Len(w.visited) <= Len(folderPath[d]) + 1
        /\ w.result = Prefix(folderPath[a], folderPath[d])
        /\ w.result = isDescendantOf(folderParent, d, a)

\* in a vault that drops have rearranged, one walk has found the ancestor
\* two levels up and another has gone up to the root without finding it
LongWalkSeen ==
    /\ vaultChanges >= 1
    /\ \E d \in Folders : \E a \in Folders :
          /\ Len(folderPath[d]) >= 3
          /\ WalkOf(d, a).result
          /\ Len(WalkOf(d, a).visited) = 3
    /\ \E d \in Folders : \E a \in Folders :
          /\ Len(folderPath[d]) >= 2
          /\ ~WalkOf(d, a).result
          /\ Len(WalkOf(d, a).visited) = Len(folderPath[d]) + 1

\* ------------------------------------------------- renders after a drop

\* C15: a drop does not render: the step of the drop handler, accepted or
\* rejected, leaves both panes and the running renders as they are, and so
\* does a rename that the store refuses; the step in which the store carries
\* the rename out changes the tree pane as one call of renderFileTree, made by
\* the rename listener, changes it, and not at all while no listener is
\* registered.
DropDoesNotRender ==
    [][/\ (\E d \in Folders : \E k \in 1..Len(treeRows) : FolderDrop(d, k))
            => UNCHANGED <<treeVars, previewVars>>
       /\ (\E x \in Files : \E k \in 1..Len(treeRows) : FileDrop(x, k))
            => UNCHANGED <<treeVars, previewVars>>
       /\ StoreRenameFail => UNCHANGED <<treeVars, previewVars>>
       /\ StoreRenameDone =>
            IF Listening
            THEN LET t == renderFileTree(TreeState, folderExists', folderParent', folderPath',
                                         selectedFolder, collapsedFolders)
                 IN  /\ treeVars' = <<t.flag, t.renders, t.rows, t.dropped>>
                     /\ Len(renders') <= Len(renders) + 1
            ELSE UNCHANGED <<treeVars, previewVars>>]_vars

\* the store has carried out the move of a dropped folder, nothing was ever
\* selected, and the tree render of the rename listener is in flight
RenderAfterMoveSeen ==
    /\ phase = "open"
    /\ vaultChanges = 1
    /\ storeCalls = <<>>
    /\ lastDrop.isFolder
    /\ selectedFolder = None
    /\ isRenderingTree
    /\ Len(renders) = 1

\* ----------------------------------------------------------- the CollapseSet

\* C16: a caret toggle of the path that the toggle before it was for puts
\* the CollapseSet back to what it was before that first toggle: the path is
\* in it if and only if it was, and so is every other path.
ToggleTwiceRestores ==
    [][\A k \in 1..Len(treeRows) :
          (CaretClick(k) /\ folderPath[treeRows[k].folder] = lastToggle.path)
              => collapsedFolders' = lastToggle.before]_vars

\* C17: plugin.data.collapsedFolders, the array that is saved, holds the
\* members of the CollapseSet, each once, after every toggle and in every
\* other state, and the view constructed from it after a close starts with
\* the CollapseSet the closed view had.
CollapsePersisted ==
    /\ [](/\ NewSet(dataCollapsedFolders) = collapsedFolders
          /\ Len(dataCollapsedFolders) = Cardinality(collapsedFolders))
    /\ [][Reopen => collapsedFolders' = collapsedFolders]_vars

\* a view has been constructed after a close and starts with a path collapsed
ReopenedCollapsed ==
    /\ phase = "constructed"
    /\ treeRows = <<>>
    /\ collapsedFolders # {}

\* C18: a step changes the CollapseSet only if it is a caret toggle: vault
\* notifications and tree renders add and remove nothing, and the path of a
\* deleted folder stays in the set.
OnlyToggleChangesCollapse ==
    [][collapsedFolders' # collapsedFolders
          => \E k \in 1..Len(treeRows) : CaretClick(k)]_vars

\* the CollapseSet holds a path at which the vault has no folder, in an open
\* view whose tree has been rendered since
StalePathKept ==
    /\ phase = "open"
    /\ ~isRenderingTree
    /\ vaultChanges >= 1
    /\ \E p \in collapsedFolders : \A f \in Folders : ~(folderExists[f] /\ folderPath[f] = p)
    /\ \A k \in 1..Len(treeRows) : folderExists[treeRows[k].folder]

\* C19: a click on a folder row selects the folder of the row and leaves the
\* active file, the CollapseSet, the saved data, the sort order and the vault
\* as they are; a caret toggle leaves the selected folder as it is.
SelectionFrame ==
    [][/\ \A k \in 1..Len(treeRows) :
             FolderClick(k) =>
                 /\ selectedFolder' = treeRows[k].folder
                 /\ UNCHANGED <<activeFile, collapsedFolders, dataCollapsedFolders,
                                sortOrder, storeVars>>
       /\ \A k \in 1..Len(treeRows) :
             CaretClick(k) => UNCHANGED <<selectedFolder, activeFile, sortOrder, storeVars>>]_vars

\* a folder was selected after a path was collapsed and the sort order changed
SelectedWithStateKept ==
    /\ selectedFolder # None
    /\ collapsedFolders # {}
    /\ sortOrder = "name-desc"
    /\ treeRows # <<>>
    /\ \E k \in 1..Len(treeRows) : treeRows[k].folder = selectedFolder /\ treeRows[k].selected

\* C20: when no renderPreview call is in flight in the open view, each card
\* of previewContent that belongs to a file of the vault belongs to a file
\* whose parent is the selected folder.
CardsOfSelectedFolder ==
    (phase = "open" /\ previewRuns = <<>>) =>
        \A k \in 1..Len(previewCards) :
            fileExists[previewCards[k].file] =>
                /\ selectedFolder # None
                /\ fileParent[previewCards[k].file] = selectedFolder

\* ------------------------------------------------- the tree of a still vault

\* The view over a vault that nothing changes: opened, clicked, collapsed,
\* closed and opened again.
NextStill ==
    \/ OnOpen
    \/ OnOpenPreview
    \/ OnOpenRegister
    \/ \E i \in 1..Len(renders) : TreeResume(i)
    \/ \E i \in 1..Len(previewRuns) : PreviewResume(i)
    \/ \E k \in 1..Len(treeRows) : CaretClick(k)
    \/ \E k \in 1..Len(treeRows) : FolderClick(k)
    \/ Close
    \/ TimerFire
    \/ Reopen

SpecStill == InitAnyVaultView /\ [][NextStill]_vars

\* the rows of treeContainer for folder f
RowsOf(f) == {k \in 1..Len(treeRows) : treeRows[k].folder = f}

\* C21: once a tree render over an unchanging vault has finished,
\* treeContainer holds one row for each folder of the vault and no other row
\* (none for a file), also for the folders below a collapsed folder, and a
\* row has a caret exactly when its folder has a child folder.
TreeRowsComplete ==
    (phase \in {"tree-rendered", "opening-preview", "open"} /\ renders = <<>>) =>
        /\ \A f \in Folders : folderExists[f] => Cardinality(RowsOf(f)) = 1
        /\ Len(treeRows) = Cardinality({f \in Folders : folderExists[f]})
        /\ \A k \in 1..Len(treeRows) :
               treeRows[k].caret <=>
                   SubFolders(folderExists, folderParent, treeRows[k].folder) # {}

\* a view opened with a path collapsed has rendered the tree of a vault with
\* a file: a row below the collapsed row is there, and the row of the folder
\* that holds the file and no folder has no caret
CollapsedSubtreeRendered ==
    /\ phase = "open"
    /\ renders = <<>>
    /\ lastToggle.path = <<>>
    /\ \E k, j \in 1..Len(treeRows) :
           /\ treeRows[k].collapsed
           /\ folderPath[treeRows[k].folder] \in collapsedFolders
           /\ treeRows[j].container = k
    /\ \E k \in 1..Len(treeRows) :
           /\ FilesOf(fileExists, fileParent, treeRows[k].folder) # {}
           /\ ~treeRows[k].caret

\* ------------------------------------------------------------------ sortFiles

MaxListLen == 3
MaxTime == 1

\* the values of plugin.data.sortOrder that sortFiles has a case for
SortOrders ==
    {"name-asc", "name-desc", "modified-new", "modified-old", "created-new", "created-old"}

\* basenames as sequences of code points: the letters a, b and e, the letter
\* e with acute accent as one code point (U+00E9, "e-acute") and the combining
\* acute accent (U+0301, "acute")
Basenames == {<<"a">>, <<"b">>, <<"e-acute">>, <<"e", "acute">>}

Extensions == {"md", "txt"}

\* TFile objects as sortFiles sees them
FileValues ==
    [basename : Basenames, extension : Extensions,
     stat : [mtime : 0..MaxTime, ctime : 0..MaxTime]]

\* the files of one folder: no two have the same name
FileLists ==
    {l \in UNION {[1..n -> FileValues] : n \in 0..MaxListLen} :
        \A i, j \in 1..Len(l) :
            (l[i].basename = l[j].basename /\ l[i].extension = l[j].extension) => i = j}

RECURSIVE Decompose(_)
\* the canonical decomposition of a string
Decompose(n) ==
    IF n = <<>> THEN <<>>
    ELSE (IF Head(n) = "e-acute" THEN <<"e", "acute">> ELSE <<Head(n)>>) \o Decompose(Tail(n))

IsLetter(c) == c # "acute"

\* the weight of a code point in the collation: marks before letters
Weight(c) == CASE c = "acute" -> 0 [] c = "a" -> 1 [] c = "b" -> 2 [] c = "e" -> 3

RECURSIVE CompareSeq(_, _)
CompareSeq(x, y) ==
    IF x = <<>> THEN (IF y = <<>> THEN 0 ELSE -1)
    ELSE IF y = <<>> THEN 1
    ELSE IF Weight(Head(x)) < Weight(Head(y)) THEN -1
    ELSE IF Weight(Head(x)) > Weight(Head(y)) THEN 1
    ELSE CompareSeq(Tail(x), Tail(y))

\* String.prototype.localeCompare: the letters decide, then the accents; two
\* strings that are canonically equivalent compare as equal
localeCompare(a, b) ==
    LET primary == CompareSeq(SelectSeq(Decompose(a), IsLetter),
                              SelectSeq(Decompose(b), IsLetter))
    IN  IF primary # 0 THEN primary ELSE CompareSeq(Decompose(a), Decompose(b))

\* the comparators with the one of name-desc a copy of the one of name-asc
comparatorDescAsAsc(order, a, b) ==
    CASE order = "name-asc" -> localeCompare(a.basename, b.basename)
      [] order = "name-desc" -> localeCompare(a.basename, b.basename)
      [] order = "modified-new" -> b.stat.mtime - a.stat.mtime
      [] order = "modified-old" -> a.stat.mtime - b.stat.mtime
      [] order = "created-new" -> b.stat.ctime - a.stat.ctime
      [] order = "created-old" -> a.stat.ctime - b.stat.ctime

\* the comparators with the operands of modified-new exchanged
comparatorModifiedSwapped(order, a, b) ==
    CASE order = "name-asc" -> localeCompare(a.basename, b.basename)
      [] order = "name-desc" -> localeCompare(b.basename, a.basename)
      [] order = "modified-new" -> a.stat.mtime - b.stat.mtime
      [] order = "modified-old" -> a.stat.mtime - b.stat.mtime
      [] order = "created-new" -> b.stat.ctime - a.stat.ctime
      [] order = "created-old" -> a.stat.ctime - b.stat.ctime

\* the comparator that sortFiles hands to files.sort for each sort order
comparator(order, a, b) ==
    CASE order = "name-asc" -> localeCompare(a.basename, b.basename)
      [] order = "name-desc" -> localeCompare(b.basename, a.basename)
      [] order = "modified-new" -> b.stat.mtime - a.stat.mtime
      [] order = "modified-old" -> a.stat.mtime - b.stat.mtime
      [] order = "created-new" -> b.stat.ctime - a.stat.ctime
      [] order = "created-old" -> a.stat.ctime - b.stat.ctime

RECURSIVE Insert(_, _, _)
\* x is put behind the elements of the sorted array s that do not come after it
Insert(order, s, x) ==
    IF s = <<>> THEN <<x>>
    ELSE IF comparator(order, Head(s), x) <= 0 THEN <<Head(s)>> \o Insert(order, Tail(s), x)
    ELSE <<x>> \o s

RECURSIVE ArraySort(_, _)
\* Array.prototype.sort with a comparator: a stable sort
ArraySort(order, arr) ==
    IF arr = <<>> THEN <<>>
    ELSE Insert(order, ArraySort(order, SubSeq(arr, 1, Len(arr) - 1)), arr[Len(arr)])

\* sortFiles(files) under plugin.data.sortOrder = order: the array after the
\* call; the switch has no default case
sortFilesArray(order, arr) ==
    IF order \in SortOrders THEN ArraySort(order, arr) ELSE arr

\* updateSort(order) of the sort menu with the sortFiles call of the
\* renderPreview it ends in, on the files of the selected folder
SortFilesCall(o) ==
    /\ sortResult.order = "unsorted"
    /\ sortOrder' = o
    /\ sortResult' = [order |-> o, files |-> sortFilesArray(o, sortArg)]
    /\ UNCHANGED <<storeVars, phase, selVars, treeVars, previewVars, lastNotice, lastDrop,
                   dataCollapsedFolders, lastToggle, sortSaves,
                   sortArg, content, parts, removeLinkBrackets, previewText, probeVars, extraVars>>

InitSort ==
    /\ InitFolders /\ InitNoFiles /\ InitViewState /\ InitNoProbe /\ InitExtra
    /\ sortArg \in FileLists
    /\ sortResult = [order |-> "unsorted", files |-> <<>>]
    /\ content = <<>>
    /\ parts = <<>>
    /\ removeLinkBrackets = FALSE
    /\ previewText = [returned |-> FALSE, text |-> <<>>]

\* sortFiles over every list of files of a folder
NextSort ==
    \/ \E o \in SortOrders : SortFilesCall(o)

SpecSort == InitSort /\ [][NextSort]_vars

Reverse(a) == [i \in 1..Len(a) |-> a[Len(a) + 1 - i]]

\* C22 as stated: for files with pairwise distinct basenames the order of
\* name-asc is the reverse of the order of name-desc.
AscReversesDescDistinctNames ==
    (/\ sortResult.order # "unsorted"
     /\ sortResult.order = "name-asc"
     /\ \A i, j \in 1..Len(sortArg) : sortArg[i].basename = sortArg[j].basename => i = j)
        => sortResult.files = Reverse(sortFilesArray("name-desc", sortArg))

\* C22: for files no two of whose basenames compare as equal under
\* localeCompare, the order of name-asc is the reverse of the order of
\* name-desc.
AscReversesDesc ==
    (/\ sortResult.order # "unsorted"
     /\ sortResult.order = "name-asc"
     /\ \A i, j \in 1..Len(sortArg) :
            localeCompare(sortArg[i].basename, sortArg[j].basename) = 0 => i = j)
        => sortResult.files = Reverse(sortFilesArray("name-desc", sortArg))

\* three files whose names all compare as different were sorted a to z, and
\* the sort moved them
ThreeNamesSorted ==
    /\ sortResult.order # "unsorted"
    /\ sortResult.order = "name-asc"
    /\ Len(sortArg) = 3
    /\ \A i, j \in 1..Len(sortArg) :
           localeCompare(sortArg[i].basename, sortArg[j].basename) = 0 => i = j
    /\ sortResult.files # sortArg
    /\ sortResult.files # Reverse(sortArg)

\* a before b in the order o
InOrder(o, a, b) ==
    CASE o = "name-asc" -> localeCompare(a.basename, b.basename) <= 0
      [] o = "name-desc" -> localeCompare(a.basename, b.basename) >= 0
      [] o = "modified-new" -> a.stat.mtime >= b.stat.mtime
      [] o = "modified-old" -> a.stat.mtime <= b.stat.mtime
      [] o = "created-new" -> a.stat.ctime >= b.stat.ctime
      [] o = "created-old" -> a.stat.ctime <= b.stat.ctime

\* C23: for each of the six sort orders sortFiles ends with the files it was
\* given, each once, in the order of the key of that sort order.
SortedByKey ==
    sortResult.order # "unsorted" =>
        /\ Len(sortResult.files) = Len(sortArg)
        /\ {sortResult.files[i] : i \in 1..Len(sortArg)} = {sortArg[i] : i \in 1..Len(sortArg)}
        /\ \A i, j \in 1..Len(sortArg) :
               i < j => InOrder(sortResult.order, sortResult.files[i], sortResult.files[j])

\* three files with different times were sorted newest change first, and the
\* sort moved them
ThreeTimesSorted ==
    /\ sortResult.order # "unsorted"
    /\ sortResult.order = "modified-new"
    /\ Len(sortArg) = 3
    /\ \E i, j \in 1..3 : sortArg[i].stat.mtime # sortArg[j].stat.mtime
    /\ sortResult.files # sortArg

\* --------------------------------------------------------- extractPreviewText

\* Strings are sequences of characters.

MaxLines == 5
MaxParts == 4

\* the characters \s matches
WhiteSpace == {" ", "\t", "\n", "\r"}

\* the characters . does not match, before which $ and behind which ^ match
\* under the m flag
LineTerminators == {"\n", "\r"}

\* the characters \w matches
WordChars ==
    {"a", "b", "c", "d", "e", "f", "g", "h", "i", "j", "k", "l", "m", "n", "o", "p", "q",
     "r", "s", "t", "u", "v", "w", "x", "y", "z", "A", "B", "C", "D", "E", "F", "G", "H",
     "I", "J", "K", "L", "M", "N", "O", "P", "Q", "R", "S", "T", "U", "V", "W", "X", "Y",
     "Z", "0", "1", "2", "3", "4", "5", "6", "7", "8", "9", "_"}

Fence == <<"-", "-", "-">>

RECURSIVE trimStart(_)
trimStart(t) ==
    IF t # <<>> /\ Head(t) \in WhiteSpace THEN trimStart(Tail(t)) ELSE t

RECURSIVE trimEnd(_)
trimEnd(t) ==
    IF t # <<>> /\ t[Len(t)] \in WhiteSpace THEN trimEnd(SubSeq(t, 1, Len(t) - 1)) ELSE t

\* String.prototype.trim
trim(t) == trimEnd(trimStart(t))

\* String.prototype.startsWith
startsWith(t, p) == Len(t) >= Len(p) /\ SubSeq(t, 1, Len(p)) = p

\* the least and the greatest element of a set of numbers that is not empty
Least(S) == CHOOSE j \in S : \A k \in S : j <= k
Greatest(S) == CHOOSE j \in S : \A k \in S : j >= k

\* the first position from i on whose character is in Stop, or the position
\* behind the string
StopAt(t, i, Stop) ==
    LET stops == {j \in i..Len(t) : t[j] \in Stop}
    IN  IF stops = {} THEN Len(t) + 1 ELSE Least(stops)

\* the first position from i on whose character is not in Class, or the
\* position behind the string
RunEnd(t, i, Class) ==
    LET stops == {j \in i..Len(t) : t[j] \notin Class}
    IN  IF stops = {} THEN Len(t) + 1 ELSE Least(stops)

RECURSIVE split(_)
\* text.split("\n")
split(t) ==
    LET i == StopAt(t, 1, {"\n"})
    IN  IF i > Len(t) THEN <<t>>
        ELSE <<SubSeq(t, 1, i - 1)>> \o split(SubSeq(t, i + 1, Len(t)))

RECURSIVE join(_, _)
\* lines.join(sep)
join(lines, sep) ==
    IF lines = <<>> THEN <<>>
    ELSE IF Len(lines) = 1 THEN lines[1]
    ELSE lines[1] \o sep \o join(Tail(lines), sep)

\* a loop without its break: the last line that is --- wins
endIndexOfLast(lines, i) ==
    LET later == {j \in i..Len(lines) : trim(lines[j]) = Fence}
    IN  IF later = {} THEN -1 ELSE Greatest(later)

RECURSIVE endIndexOfOrEnd(_, _)
\* a loop that takes the last line of the text for the closing line when it
\* has found none
endIndexOfOrEnd(lines, i) ==
    IF i > Len(lines) THEN Len(lines)
    ELSE IF trim(lines[i]) = Fence THEN i
    ELSE endIndexOfOrEnd(lines, i + 1)

RECURSIVE endIndexOf(_, _)
\* the loop over lines[i], lines[i + 1], ... for the closing ---: the number
\* of the first line that is --- when trimmed, -1 when there is none (lines
\* are counted from 1 here, from 0 in the source)
endIndexOf(lines, i) ==
    IF i > Len(lines) THEN -1
    ELSE IF trim(lines[i]) = Fence THEN i
    ELSE endIndexOf(lines, i + 1)

\* the removal of the YAML frontmatter from the trimmed content
removeFrontmatter(text) ==
    IF startsWith(text, Fence)
    THEN LET lines == split(text)
             endIndex == endIndexOf(lines, 2)
         IN  IF endIndex # -1
             THEN trim(join(SubSeq(lines, endIndex + 1, Len(lines)), <<"\n">>))
             ELSE text
    ELSE text

\* ^ and $ under the m flag, at the position of character i (Len + 1: behind
\* the string)
AtLineStart(t, i) == i = 1 \/ t[i - 1] \in LineTerminators
AtLineEnd(t, e) == e = Len(t) + 1 \/ t[e] \in LineTerminators

NoMatch == [end |-> 0, out |-> <<>>]

\* /^[\w-]+::.+$/m at position i: the position behind the match, and its
\* replacement ""
matchInlineProperty(t, i) ==
    IF ~AtLineStart(t, i) THEN NoMatch
    ELSE LET k == RunEnd(t, i, WordChars \cup {"-"})
             e == StopAt(t, i, LineTerminators)
         IN  IF k > i /\ k + 1 <= Len(t) /\ t[k] = ":" /\ t[k + 1] = ":" /\ e > k + 2
             THEN [end |-> e, out |-> <<>>]
             ELSE NoMatch

\* /^\|?[\s|\-:]+\|?\s*$/m at position i: the run of the class from the line
\* start on, given back as far as the last line end in it; replacement ""
matchTableSeparator(t, i) ==
    IF ~AtLineStart(t, i) THEN NoMatch
    ELSE LET r == RunEnd(t, i, WhiteSpace \cup {"|", "-", ":"})
             ends == {e \in (i + 1)..r : AtLineEnd(t, e)}
         IN  IF ends = {} THEN NoMatch ELSE [end |-> Greatest(ends), out |-> <<>>]

\* /^#+\s/m at position i; replacement ""
matchHeader(t, i) ==
    IF ~AtLineStart(t, i) THEN NoMatch
    ELSE LET k == RunEnd(t, i, {"#"})
         IN  IF k > i /\ k <= Len(t) /\ t[k] \in WhiteSpace
             THEN [end |-> k + 1, out |-> <<>>]
             ELSE NoMatch

\* /\*\*(.+?)\*\*/ at position i; replacement $1
matchBold(t, i) ==
    IF ~(i + 1 <= Len(t) /\ t[i] = "*" /\ t[i + 1] = "*") THEN NoMatch
    ELSE LET stop == StopAt(t, i + 2, LineTerminators)
             closing == {j \in (i + 3)..(stop - 2) : t[j] = "*" /\ t[j + 1] = "*"}
         IN  IF closing = {} THEN NoMatch
             ELSE [end |-> Least(closing) + 2, out |-> SubSeq(t, i + 2, Least(closing) - 1)]

\* /\*(.+?)\*/ at position i; replacement $1
matchItalic(t, i) ==
    IF t[i] # "*" THEN NoMatch
    ELSE LET stop == StopAt(t, i + 1, LineTerminators)
             closing == {j \in (i + 2)..(stop - 1) : t[j] = "*"}
         IN  IF closing = {} THEN NoMatch
             ELSE [end |-> Least(closing) + 1, out |-> SubSeq(t, i + 1, Least(closing) - 1)]

\* /^[>\-*+]\s/m at position i; replacement ""
matchListMarker(t, i) ==
    IF /\ AtLineStart(t, i)
       /\ t[i] \in {">", "-", "*", "+"}
       /\ i + 1 <= Len(t)
       /\ t[i + 1] \in WhiteSpace
    THEN [end |-> i + 2, out |-> <<>>]
    ELSE NoMatch

\* /\|/ at position i; replacement " "
matchPipe(t, i) ==
    IF t[i] = "|" THEN [end |-> i + 1, out |-> <<" ">>] ELSE NoMatch

\* /\[\[(.+?)\]\]/ at position i; replacement $1
matchWikiLink(t, i) ==
    IF ~(i + 1 <= Len(t) /\ t[i] = "[" /\ t[i + 1] = "[") THEN NoMatch
    ELSE LET stop == StopAt(t, i + 2, LineTerminators)
             closing == {j \in (i + 3)..(stop - 2) : t[j] = "]" /\ t[j + 1] = "]"}
         IN  IF closing = {} THEN NoMatch
             ELSE [end |-> Least(closing) + 2, out |-> SubSeq(t, i + 2, Least(closing) - 1)]

\* /\[(.+?)\]\(.+?\)/ at position i; replacement $1
matchMarkdownLink(t, i) ==
    IF t[i] # "[" THEN NoMatch
    ELSE LET stop == StopAt(t, i + 1, LineTerminators)
             middle == {j \in (i + 2)..(stop - 2) :
                           /\ t[j] = "]" /\ t[j + 1] = "("
                           /\ \E m \in (j + 3)..(stop - 1) : t[m] = ")"}
         IN  IF middle = {} THEN NoMatch
             ELSE LET j == Least(middle)
                      m == Least({n \in (j + 3)..(stop - 1) : t[n] = ")"})
                  IN  [end |-> m + 1, out |-> SubSeq(t, i + 1, j - 1)]

\* the match of the regular expression `kind` at position i
matchAt(kind, t, i) ==
    CASE kind = "inline-property" -> matchInlineProperty(t, i)
      [] kind = "table-separator" -> matchTableSeparator(t, i)
      [] kind = "header" -> matchHeader(t, i)
      [] kind = "bold" -> matchBold(t, i)
      [] kind = "italic" -> matchItalic(t, i)
      [] kind = "list-marker" -> matchListMarker(t, i)
      [] kind = "pipe" -> matchPipe(t, i)
      [] kind = "wiki-link" -> matchWikiLink(t, i)
      [] kind = "markdown-link" -> matchMarkdownLink(t, i)

RECURSIVE replaceFrom(_, _, _)
\* text.replace(regex, replacement) under the g flag, from position i on: a
\* match is replaced and the search goes on behind it, a character at which
\* nothing matches is kept
replaceFrom(kind, t, i) ==
    IF i > Len(t) THEN <<>>
    ELSE LET m == matchAt(kind, t, i)
         IN  IF m.end = 0 THEN <<t[i]>> \o replaceFrom(kind, t, i + 1)
             ELSE m.out \o replaceFrom(kind, t, m.end)

replace(t, kind) == replaceFrom(kind, t, 1)

\* the lines that are not blank
NonBlank(line) == Len(trim(line)) > 0

\* the steps of extractPreviewText behind the frontmatter, with the links
\* stripped whatever the setting says
cleanMarkdownLinksStripped(text, flag) ==
    LET t1 == replace(text, "inline-property")
        t2 == replace(t1, "table-separator")
        t3 == replace(replace(replace(replace(replace(t2,
                  "header"), "bold"), "italic"), "list-marker"), "pipe")
        t4 == replace(replace(t3, "wiki-link"), "markdown-link")
    IN  join(SelectSeq(split(trim(t4)), NonBlank), <<" ">>)

\* the steps of extractPreviewText behind the frontmatter; flag is
\* plugin.data.removeLinkBrackets
cleanMarkdown(text, flag) ==
    LET t1 == replace(text, "inline-property")
        t2 == replace(t1, "table-separator")
        t3 == replace(replace(replace(replace(replace(t2,
                  "header"), "bold"), "italic"), "list-marker"), "pipe")
        t4 == IF flag THEN replace(replace(t3, "wiki-link"), "markdown-link") ELSE t3
    IN  join(SelectSeq(split(trim(t4)), NonBlank), <<" ">>)

\* extractPreviewText(content) under plugin.data.removeLinkBrackets = flag
extractPreviewText(c, flag) == cleanMarkdown(removeFrontmatter(trim(c)), flag)

\* renderFilePreview behind vault.read: the preview text of the content
ExtractPreviewCall ==
    /\ ~previewText.returned
    /\ previewText' = [returned |-> TRUE, text |-> extractPreviewText(content, removeLinkBrackets)]
    /\ UNCHANGED <<storeVars, phase, selVars, treeVars, previewVars, lastNotice, lastDrop,
                   dataCollapsedFolders, lastToggle, sortOrder, sortSaves,
                   sortArg, sortResult, content, parts, removeLinkBrackets, probeVars, extraVars>>

\* the Remove link brackets toggle of the settings tab
SetRemoveLinkBrackets(value) ==
    /\ ~previewText.returned
    /\ removeLinkBrackets # value
    /\ removeLinkBrackets' = value
    /\ UNCHANGED <<storeVars, phase, selVars, treeVars, previewVars, lastNotice, lastDrop,
                   dataCollapsedFolders, lastToggle, sortOrder, sortSaves,
                   sortArg, sortResult, content, parts, previewText, probeVars, extraVars>>

NextExtract ==
    \/ ExtractPreviewCall
    \/ \E value \in BOOLEAN : SetRemoveLinkBrackets(value)

\* the lines the notes are written from
LineTexts ==
    {Fence,
     <<"-", "-", "-", " ">>,
     <<"-", "-", "-", "x">>,
     <<"t", "i", "t", "l", "e", ":", " ", "X">>,
     <<"H", "e", "l", "l", "o">>,
     <<>>}

InitLines ==
    /\ InitFolders /\ InitNoFiles /\ InitViewState /\ InitNoProbe /\ InitExtra
    /\ sortArg = <<>>
    /\ sortResult = [order |-> "unsorted", files |-> <<>>]
    /\ parts \in UNION {[1..n -> LineTexts] : n \in 0..MaxLines}
    /\ content = join(parts, <<"\n">>)
    /\ removeLinkBrackets = TRUE
    /\ previewText = [returned |-> FALSE, text |-> <<>>]

\* extractPreviewText over notes of up to MaxLines lines
SpecLines == InitLines /\ [][NextExtract]_vars

\* the lines of the trimmed content
ContentLines == split(trim(content))

\* the lines behind the first that are --- apart from surrounding whitespace
ClosingLines == {i \in 2..Len(ContentLines) : trim(ContentLines[i]) = Fence}

\* text t has the piece p in it
Contains(t, p) == \E i \in 1..(Len(t) - Len(p) + 1) : SubSeq(t, i, i + Len(p) - 1) = p

UnclosedFenceRetained ==
    (/\ previewText.returned
     /\ ContentLines[1] = Fence
     /\ ClosingLines = {})
        => Contains(previewText.text, Fence)

\* C25: when the content opens with a --- line and no later line is ---,
\* nothing is removed as front matter: the result is what the later steps
\* make of the whole trimmed content, with the lines behind the opening line
\* in it ('---', 'title: X', 'Hello' gives 'title: X Hello').
UnclosedFrontMatterKept ==
    (/\ previewText.returned
     /\ ContentLines[1] = Fence
     /\ ClosingLines = {})
        => /\ previewText.text = cleanMarkdown(trim(content), removeLinkBrackets)
           /\ (content = <<"-", "-", "-", "\n", "t", "i", "t", "l", "e", ":", " ", "X", "\n", "H", "e", "l", "l", "o">>) => previewText.text = <<"t", "i", "t", "l", "e", ":", " ", "X", " ", "H", "e", "l", "l", "o">>

\* the note '---', 'title: X', 'Hello' was extracted
UnclosedNoteSeen ==
    /\ previewText.returned
    /\ content = <<"-", "-", "-", "\n", "t", "i", "t", "l", "e", ":", " ", "X", "\n", "H", "e", "l", "l", "o">>
    /\ previewText.text = <<"t", "i", "t", "l", "e", ":", " ", "X", " ", "H", "e", "l", "l", "o">>

\* C26: when the first line of the trimmed content starts with --- and goes
\* on with further characters, nothing is removed as front matter, whatever
\* the later lines are.
OnlyFenceLineOpens ==
    (/\ previewText.returned
     /\ startsWith(ContentLines[1], Fence)
     /\ trim(ContentLines[1]) # Fence)
        => previewText.text = cleanMarkdown(trim(content), removeLinkBrackets)

\* ------------------------------------------------------------ link brackets

WikiLink == <<"[", "[", "P", "a", "g", "e", " ", "O", "n", "e", "]", "]">>
MarkdownLink == <<"[", "t", "e", "x", "t", "]", "(", "u", "r", "l", ")">>

\* the texts the lines with links are written from
LinkTexts == {WikiLink, MarkdownLink, <<" ", "a", "n", "d", " ">>, <<"x">>}

InitLinks ==
    /\ InitFolders /\ InitNoFiles /\ InitViewState /\ InitNoProbe /\ InitExtra
    /\ sortArg = <<>>
    /\ sortResult = [order |-> "unsorted", files |-> <<>>]
    /\ parts \in UNION {[1..n -> LinkTexts] : n \in 0..MaxParts}
    /\ content = join(parts, <<>>)
    /\ removeLinkBrackets \in BOOLEAN
    /\ previewText = [returned |-> FALSE, text |-> <<>>]

\* extractPreviewText over lines of up to MaxParts links and words
SpecLinks == InitLinks /\ [][NextExtract]_vars

\* the text shown for a link: the page of [[page]], the text of [text](url)
DisplayText(part) ==
    IF part = WikiLink THEN SubSeq(part, 3, Len(part) - 2)
    ELSE IF part = MarkdownLink THEN SubSeq(part, 2, StopAt(part, 1, {"]"}) - 1)
    ELSE part

MaxCreates == 2

\* Notice("Failed to create new file")
CreateFailedNotice == "create-file-failed"

\* `${folder.path}/Untitled.md` for n = 0, `${folder.path}/Untitled ${n}.md` for n > 0
UntitledPath(folder, n) == [folder |-> folder, n |-> n]

\* the file of the vault at a path of UntitledPath
FileAt(fex, fpar, no, path) ==
    {x \in Files : fex[x] /\ fpar[x] = path.folder /\ no[x] = path.n /\ fileExt[x] = "md"}

\* vault.adapter.exists(filePath)
adapterExists(fex, fpar, no, path) == FileAt(fex, fpar, no, path) # {}

\* the click on newFileButton: createFile() up to its first await, the check of
\* `${selectedFolder.path}/Untitled.md`
NewFileClick ==
    /\ Showing
    /\ selectedFolder # None
    /\ previewMsg # "select"
    /\ Len(creates) < MaxCreates
    /\ creates' = Append(creates, [filePath |-> UntitledPath(selectedFolder, 0),
                                   counter |-> 1,
                                   stage |-> "exists",
                                   checked |-> <<>>,
                                   file |-> None])
    /\ UNCHANGED <<storeVars, phase, selVars, treeVars, previewVars, lastNotice, lastDrop,
                   dataCollapsedFolders, lastToggle, sortOrder, sortSaves, pureVars, untitledNo, extraVars>>

\* adapter.exists of run i answers, with a loop that probes the bare name only
\* and takes "Untitled 1.md" unprobed when the bare name exists
ExistsReturnsOnce(i) ==
    LET run == creates[i]
        answer == adapterExists(fileExists, fileParent, untitledNo, run.filePath)
        seen == Append(run.checked, [filePath |-> run.filePath, exists |-> answer])
    IN  /\ run.stage = "exists"
        /\ creates' = [creates EXCEPT ![i] =
               IF answer
               THEN [run EXCEPT !.filePath = UntitledPath(selectedFolder, run.counter),
                                !.counter = run.counter + 1,
                                !.stage = "create",
                                !.checked = seen]
               ELSE [run EXCEPT !.stage = "create", !.checked = seen]]
        /\ UNCHANGED <<storeVars, phase, selVars, treeVars, previewVars, lastNotice, lastDrop,
                       dataCollapsedFolders, lastToggle, sortOrder, sortSaves, pureVars,
                       untitledNo, extraVars>>

\* adapter.exists of run i answers: on "exists" the loop body takes the next
\* name, in the folder selected by then, and checks it; otherwise the loop
\* ends and vault.create is called
ExistsReturns(i) ==
    LET run == creates[i]
        answer == adapterExists(fileExists, fileParent, untitledNo, run.filePath)
        seen == Append(run.checked, [filePath |-> run.filePath, exists |-> answer])
    IN  /\ run.stage = "exists"
        /\ creates' = [creates EXCEPT ![i] =
               IF answer
               THEN [run EXCEPT !.filePath = UntitledPath(selectedFolder, run.counter),
                                !.counter = run.counter + 1,
                                !.checked = seen]
               ELSE [run EXCEPT !.stage = "create", !.checked = seen]]
        /\ UNCHANGED <<storeVars, phase, selVars, treeVars, previewVars, lastNotice, lastDrop,
                       dataCollapsedFolders, lastToggle, sortOrder, sortSaves, pureVars,
                       untitledNo, extraVars>>

\* vault.create of run i has made the file x: the vault notifies "create", and
\* the run goes on to openFile
CreateDone(i, x) ==
    LET run == creates[i] IN
    /\ run.stage = "create"
    /\ ~adapterExists(fileExists, fileParent, untitledNo, run.filePath)
    /\ InVault(folderExists, run.filePath.folder)
    /\ ~fileExists[x] /\ fileParent[x] = None
    /\ fileExists' = [fileExists EXCEPT ![x] = TRUE]
    /\ fileParent' = [fileParent EXCEPT ![x] = run.filePath.folder]
    /\ untitledNo' = [untitledNo EXCEPT ![x] = run.filePath.n]
    /\ creates' = [creates EXCEPT ![i] = [run EXCEPT !.stage = "open", !.file = x]]
    /\ UNCHANGED <<folderExists, folderParent, folderPath, storeCalls, vaultChanges>>
    /\ OnVaultCreateDelete
    /\ UNCHANGED <<phase, selVars, lastNotice, lastDrop,
                   dataCollapsedFolders, lastToggle, sortOrder, sortSaves, pureVars, extraVars>>

\* the catch block of createFile: the run ends with the notice
CreateCaught(i) ==
    /\ creates' = RemoveAt(creates, i)
    /\ lastNotice' = CreateFailedNotice
    /\ UNCHANGED <<storeVars, phase, selVars, treeVars, previewVars, lastDrop,
                   dataCollapsedFolders, lastToggle, sortOrder, sortSaves, pureVars,
                   untitledNo, extraVars>>

\* vault.create of run i throws because the path has come to exist since the
\* run checked it
CreateConflict(i) ==
    /\ creates[i].stage = "create"
    /\ adapterExists(fileExists, fileParent, untitledNo, creates[i].filePath)
    /\ CreateCaught(i)

\* vault.create of run i throws because the write failed
CreateFail(i) ==
    /\ creates[i].stage = "create"
    /\ ~adapterExists(fileExists, fileParent, untitledNo, creates[i].filePath)
    /\ CreateCaught(i)

\* openFile of run i has opened the new file: the workspace notifies
\* "file-open", and createFile returns
OpenReturns(i) ==
    LET x == creates[i].file IN
    /\ creates[i].stage = "open"
    /\ PreviewRoom
    /\ creates' = RemoveAt(creates, i)
    /\ IF Listening
       THEN /\ activeFile' = x
            /\ selectedFolder' = fileParent[x]
            /\ IF selectedFolder = selectedFolder'
               THEN /\ previewCards' = updateActiveHighlight(previewCards, activeFile')
                    /\ UNCHANGED <<treeVars, previewRuns, previewMsg>>
               ELSE /\ SetTree(renderFileTree(TreeState, folderExists, folderParent, folderPath,
                                              selectedFolder', collapsedFolders))
                    /\ SetPreview(renderPreview(PreviewState, fileExists, fileParent,
                                                selectedFolder', activeFile', FALSE))
       ELSE UNCHANGED <<selectedFolder, activeFile, treeVars, previewVars>>
    /\ UNCHANGED <<storeVars, phase, collapsedFolders, lastNotice, lastDrop,
                   dataCollapsedFolders, lastToggle, sortOrder, sortSaves, pureVars,
                   untitledNo, extraVars>>

\* another process creates Untitled.md (n = 0) or Untitled n.md in a folder
ExtCreateUntitled(x, dest, n) ==
    /\ ExtRoom
    /\ ~fileExists[x] /\ fileParent[x] = None
    /\ InVault(folderExists, dest)
    /\ ~adapterExists(fileExists, fileParent, untitledNo, UntitledPath(dest, n))
    /\ vaultChanges' = vaultChanges + 1
    /\ fileExists' = [fileExists EXCEPT ![x] = TRUE]
    /\ fileParent' = [fileParent EXCEPT ![x] = dest]
    /\ untitledNo' = [untitledNo EXCEPT ![x] = n]
    /\ UNCHANGED <<folderExists, folderParent, folderPath, storeCalls>>
    /\ OnVaultCreateDelete
    /\ UNCHANGED <<phase, selVars, lastNotice, lastDrop,
                   dataCollapsedFolders, lastToggle, sortOrder, sortSaves, pureVars, creates, extraVars>>

\* a vault holding /1/2 and the note /1/Untitled.md
InitCreate ==
    /\ InitFolders
    /\ InitOneFile
    /\ InitViewState
    /\ sortArg = <<>>
    /\ sortResult = [order |-> "unsorted", files |-> <<>>]
    /\ content = <<>>
    /\ parts = <<>>
    /\ removeLinkBrackets = FALSE
    /\ previewText = [returned |-> FALSE, text |-> <<>>]
    /\ creates = <<>>
    /\ untitledNo = [x \in Files |-> IF x = 1 THEN 0 ELSE -1]
    /\ InitExtra

NextCreate ==
    \/ OnOpen
    \/ OnOpenPreview
    \/ OnOpenRegister
    \/ \E i \in 1..Len(renders) : TreeResume(i)
    \/ \E i \in 1..Len(previewRuns) : PreviewResume(i)
    \/ \E k \in 1..Len(treeRows) : FolderClickAtRest(k)
    \/ NewFileClick
    \/ \E i \in 1..Len(creates) : ExistsReturns(i)
    \/ \E i \in 1..Len(creates), x \in Files : CreateDone(i, x)
    \/ \E i \in 1..Len(creates) : CreateConflict(i)
    \/ \E i \in 1..Len(creates) : CreateFail(i)
    \/ \E i \in 1..Len(creates) : OpenReturns(i)
    \/ \E x \in Files, dest \in Folders, n \in 0..1 : ExtCreateUntitled(x, dest, n)

SpecCreate == InitCreate /\ [][NextCreate]_vars

\* the checks of a run went 0, 1, 2, ... through the names, and each but the
\* last was answered "exists"
ProbedInTurn(run) ==
    /\ \A j \in 1..Len(run.checked) : run.checked[j].filePath.n = j - 1
    /\ \A j \in 1..(Len(run.checked) - 1) : run.checked[j].exists

\* the last check a run has had answered
LastChecked(run) == run.checked[Len(run.checked)]

\* C28: a createFile call checks the bare name, then the names with counter
\* 1, 2, 3, ... one at a time, each only after the check before it was
\* answered "exists"; it creates the file at the first path whose check was
\* answered "does not exist"; and it makes no more checks than there are
\* files in the vault, plus one.
SequentialProbe ==
    \A i \in 1..Len(creates) :
        LET run == creates[i] IN
        /\ ProbedInTurn(run)
        /\ Len(run.checked) <= Cardinality({x \in Files : fileExists[x]}) + 1
        /\ run.stage = "exists" =>
               /\ run.filePath.n = Len(run.checked)
               /\ run.checked # <<>> => LastChecked(run).exists
        /\ run.stage \in {"create", "open"} =>
               /\ run.checked # <<>>
               /\ ~LastChecked(run).exists
               /\ run.filePath = LastChecked(run).filePath
        /\ run.stage = "open" =>
               /\ fileParent[run.file] = run.filePath.folder
               /\ untitledNo[run.file] = run.filePath.n

\* a run found Untitled.md taken, checked Untitled 1.md and created it
ProbedPastTakenName ==
    \E i \in 1..Len(creates) :
        /\ creates[i].stage = "open"
        /\ Len(creates[i].checked) = 2
        /\ creates[i].checked[1].exists
        /\ creates[i].filePath.n = 1

\* C29: a name collision is never shown to the user: when vault.create of a
\* createFile call finds that its path exists, no failure notice comes up.
ConflictNeverSurfaced ==
    [][\A i \in 1..Len(creates) : CreateConflict(i) => lastNotice' # CreateFailedNotice]_vars

\* C30: every rename or move the store fails to carry out, though the item
\* and the destination are in order, is shown as a notice, and the selected
\* folder, the active file, the collapsed folders and the sort order stay as
\* they were.
StoreFailureSurfaced ==
    [][(StoreRenameFail /\ RenameValid(Head(storeCalls))) =>
           /\ lastNotice' \in {"move-folder-failed", "move-file-failed"}
           /\ UNCHANGED <<selectedFolder, activeFile, collapsedFolders, sortOrder>>]_vars

\* ------------------------------------------------------------- failed reads

\* C31: a failed read does not degrade the preview pane: once the only
\* preview render in execution has failed, the pane shows a completed render,
\* every card carrying its text, and not a partially rebuilt list.
FailureKeepsLastGood ==
    [][\A i \in 1..Len(previewRuns) :
          (Len(previewRuns) = 1 /\ PreviewFail(i))
              => \A k \in 1..Len(previewCards') : previewCards'[k].text]_vars

\* ----------------------------------------------------- the delayed re-render

\* C32: the tree render of the one-shot timer is requested while the view is
\* open, after onOpen has rendered the tree and the preview.
TimerFiresWhileOpen == [][TimerFire => phase = "open"]_vars

\* ------------------------------------------ the Delete entry of folder rows

\* the DeleteFolderModal objects the model admits at a time
MaxDialogs == 2

\* the trashFile calls the model admits at a time
MaxTrashCalls == 1

\* "Delete" of the context menu of row k without a dialog: trashFile is
\* called for the folder at once
DeleteMenuNoDialog(k) ==
    /\ Showing
    /\ k \in 1..Len(treeRows)
    /\ RowVisible(treeRows, k)
    /\ Len(trashCalls) < MaxTrashCalls
    /\ trashCalls' = Append(trashCalls, treeRows[k].folder)
    /\ UNCHANGED <<storeVars, phase, selVars, treeVars, previewVars, lastNotice, lastDrop,
                   dataCollapsedFolders, lastToggle, sortOrder, sortSaves, pureVars,
                   probeVars, dialogs, fileExt, resizeVars>>

\* "Delete" of the context menu of row k: the DeleteFolderModal of the folder
\* opens, and nothing is trashed
DeleteMenu(k) ==
    /\ Showing
    /\ k \in 1..Len(treeRows)
    /\ RowVisible(treeRows, k)
    /\ Len(dialogs) < MaxDialogs
    /\ dialogs' = Append(dialogs, treeRows[k].folder)
    /\ UNCHANGED <<storeVars, phase, selVars, treeVars, previewVars, lastNotice, lastDrop,
                   dataCollapsedFolders, lastToggle, sortOrder, sortSaves, pureVars,
                   probeVars, trashCalls, fileExt, resizeVars>>

\* the Cancel button of dialog i, or the dialog is closed: this.close()
DialogCancel(i) ==
    /\ i \in 1..Len(dialogs)
    /\ dialogs' = RemoveAt(dialogs, i)
    /\ UNCHANGED <<storeVars, phase, selVars, treeVars, previewVars, lastNotice, lastDrop,
                   dataCollapsedFolders, lastToggle, sortOrder, sortSaves, pureVars,
                   probeVars, trashCalls, fileExt, resizeVars>>

\* the Delete button of dialog i: onConfirm() runs deleteFolder up to its
\* await of fileManager.trashFile(item), then this.close()
DialogDelete(i) ==
    /\ i \in 1..Len(dialogs)
    /\ Len(trashCalls) < MaxTrashCalls
    /\ trashCalls' = Append(trashCalls, dialogs[i])
    /\ dialogs' = RemoveAt(dialogs, i)
    /\ UNCHANGED <<storeVars, phase, selVars, treeVars, previewVars, lastNotice, lastDrop,
                   dataCollapsedFolders, lastToggle, sortOrder, sortSaves, pureVars,
                   probeVars, fileExt, resizeVars>>

\* trashFile returns: the folder and all below it have left the vault, and
\* the vault has sent its delete notification
TrashDone ==
    /\ trashCalls # <<>>
    /\ folderExists[Head(trashCalls)]
    /\ trashCalls' = Tail(trashCalls)
    /\ folderExists' = [x \in Folders |->
           folderExists[x] /\ x \notin Below(folderExists, folderParent, Head(trashCalls))]
    /\ fileExists' = [x \in Files |->
           fileExists[x]
           /\ fileParent[x] \notin Below(folderExists, folderParent, Head(trashCalls))]
    /\ UNCHANGED <<folderParent, folderPath, fileParent, storeCalls, vaultChanges, phase,
                   selVars, lastNotice, lastDrop, dataCollapsedFolders, lastToggle,
                   sortOrder, sortSaves, pureVars, probeVars, dialogs, fileExt, resizeVars>>
    /\ OnVaultCreateDelete

\* trashFile throws: the catch block of deleteFolder shows its notice
TrashFail ==
    /\ trashCalls # <<>>
    /\ trashCalls' = Tail(trashCalls)
    /\ lastNotice' = "delete-folder-failed"
    /\ UNCHANGED <<storeVars, phase, selVars, treeVars, previewVars, lastDrop,
                   dataCollapsedFolders, lastToggle, sortOrder, sortSaves, pureVars,
                   probeVars, dialogs, fileExt, resizeVars>>

\* The Delete entry and its dialogs over the vault /1/2.
NextDelete ==
    \/ OnOpen
    \/ OnOpenPreview
    \/ OnOpenRegister
    \/ \E i \in 1..Len(renders) : TreeResume(i)
    \/ \E k \in 1..Len(treeRows) : DeleteMenu(k)
    \/ \E i \in 1..Len(dialogs) : DialogCancel(i)
    \/ \E i \in 1..Len(dialogs) : DialogDelete(i)
    \/ TrashDone
    \/ TrashFail

SpecDelete == InitPreview /\ [][NextDelete]_vars

\* C33: a folder is trashed only after it was confirmed: a step issues a
\* trashFile call only if it is a press on the Delete button of an open
\* dialog, and the call is for the folder of that dialog; opening the dialog,
\* Cancel and closing the dialog issue no call.
TrashOnlyAfterConfirm ==
    [][/\ Len(trashCalls') > Len(trashCalls)
           => \E i \in 1..Len(dialogs) :
                 /\ DialogDelete(i)
                 /\ trashCalls'[Len(trashCalls')] = dialogs[i]
       /\ \A k \in 1..Len(treeRows) : DeleteMenu(k) => UNCHANGED trashCalls
       /\ \A i \in 1..Len(dialogs) : DialogCancel(i) => UNCHANGED trashCalls]_vars

\* folder 2 was trashed after the Delete button of its dialog was pressed, and
\* no dialog and no call is left
TrashedAfterConfirm ==
    /\ ~folderExists[2]
    /\ folderExists[1]
    /\ trashCalls = <<>>
    /\ dialogs = <<>>
    /\ lastNotice = "none"

\* -------------------------------------------------------- the selected row

\* C34: whenever no tree render is in execution, at most one row carries
\* ftp-selected, and a row carries it exactly if its folder is the selected
\* folder.
SelectedRowMarked ==
    (renders = <<>> /\ ~isRenderingTree) =>
        /\ Cardinality({k \in 1..Len(treeRows) : treeRows[k].selected}) <= 1
        /\ \A k \in 1..Len(treeRows) :
              treeRows[k].selected <=> treeRows[k].folder = selectedFolder

\* ------------------------------------------------------ the active highlight

\* another process creates, next to the file y, a file of the same basename
\* and the extension txt
ExtCreateNamesake(x, y) ==
    /\ ExtRoom
    /\ ~fileExists[x] /\ fileParent[x] = None
    /\ fileExists[y] /\ untitledNo[y] # -1 /\ fileExt[y] = "md"
    /\ \A z \in Files : ~(fileExists[z] /\ fileParent[z] = fileParent[y]
                          /\ untitledNo[z] = untitledNo[y] /\ fileExt[z] = "txt")
    /\ vaultChanges' = vaultChanges + 1
    /\ fileExists' = [fileExists EXCEPT ![x] = TRUE]
    /\ fileParent' = [fileParent EXCEPT ![x] = fileParent[y]]
    /\ untitledNo' = [untitledNo EXCEPT ![x] = untitledNo[y]]
    /\ fileExt' = [fileExt EXCEPT ![x] = "txt"]
    /\ UNCHANGED <<folderExists, folderParent, folderPath, storeCalls>>
    /\ OnVaultCreateDelete
    /\ UNCHANGED <<phase, selVars, lastNotice, lastDrop,
                   dataCollapsedFolders, lastToggle, sortOrder, sortSaves, pureVars, creates,
                   dialogVars, resizeVars>>

\* The cards of a folder whose files are opened, over the vault /1/2 with
\* the note /1/Untitled.md.
NextHighlight ==
    \/ OnOpen
    \/ OnOpenPreview
    \/ OnOpenRegister
    \/ \E i \in 1..Len(renders) : TreeResume(i)
    \/ \E i \in 1..Len(previewRuns) : PreviewResume(i)
    \/ \E k \in 1..Len(treeRows) : FolderClickAtRest(k)
    \/ \E x \in Files : FileOpen(x)
    \/ FileOpenNull
    \/ \E x \in Files, y \in Files : ExtCreateNamesake(x, y)
    \/ \E x \in Files, dest \in Folders \cup {Root} : ExtCreateFile(x, dest)

SpecHighlight == InitCreate /\ [][NextHighlight]_vars

\* C35: after updateActiveHighlight has run, a card is marked active if and
\* only if its file is the active file, as a full renderPreview marks it.
HighlightMarksActiveFile ==
    [][\A x \in Files :
          (FileOpen(x) /\ selectedFolder' = selectedFolder) =>
              \A k \in 1..Len(previewCards') :
                  previewCards'[k].active <=> previewCards'[k].file = activeFile']_vars

\* C36: a file-open notification for a file with a parent makes the file the
\* active file and its parent the selected folder; when the parent was the
\* selected folder already, no tree render and no preview render is requested
\* and the cards change in their highlight only; otherwise a tree render is
\* requested (it starts, or it is dropped at the guard) and a preview render
\* is started; a notification without a file changes nothing.
FileOpenSelectsParent ==
    [][/\ \A x \in Files :
             FileOpen(x) =>
                 /\ activeFile' = x
                 /\ selectedFolder' = fileParent[x]
                 /\ IF selectedFolder = fileParent[x]
                    THEN /\ UNCHANGED <<treeVars, previewRuns, previewMsg>>
                         /\ Len(previewCards') = Len(previewCards)
                         /\ \A k \in 1..Len(previewCards) :
                               /\ previewCards'[k].file = previewCards[k].file
                               /\ previewCards'[k].text = previewCards[k].text
                    ELSE /\ IF isRenderingTree
                            THEN requestDropped' /\ renders' = renders
                            ELSE isRenderingTree' /\ Len(renders') = Len(renders) + 1
                         /\ Len(previewRuns') = Len(previewRuns) + 1
                         /\ previewCards' # <<>>
                         /\ fileParent[previewCards'[1].file] = fileParent[x]
       /\ FileOpenNull => UNCHANGED <<selVars, treeVars, previewVars>>]_vars

\* a file of another folder was opened while folder 1 was selected: its folder
\* is selected, and its card is being rendered
OpenedIntoOtherFolder ==
    /\ activeFile = 2
    /\ selectedFolder = 2
    /\ fileParent[2] = 2
    /\ previewRuns # <<>>
    /\ previewCards # <<>>
    /\ previewCards[1].file = 2
    /\ isRenderingTree

\* ------------------------------------------------- two createFile calls

\* C37: two createFile calls never call vault.create for the same path: no
\* two runs wait for vault.create with one filePath.
CreatesAtDistinctPaths ==
    \A i, j \in 1..Len(creates) :
        (i # j /\ creates[i].stage = "create" /\ creates[j].stage = "create")
            => creates[i].filePath # creates[j].filePath

\* ------------------------------------------------- rows and the CollapseSet

\* C38: every row of a folder of the vault is displayed collapsed if and only
\* if the current path of its folder is in the CollapseSet.
RowsAgreeWithCollapseSet ==
    \A k \in 1..Len(treeRows) :
        folderExists[treeRows[k].folder] =>
            (treeRows[k].collapsed <=> folderPath[treeRows[k].folder] \in collapsedFolders)

\* ---------------------------------------------------------- the resize handle

\* const minWidth = 150
MinWidth == 150

\* the pointer positions and container widths of the model are multiples of
\* WidthStep px, up to MaxWidthSteps of them
WidthStep == 50
MaxWidthSteps == 10

\* containerRect.width
ContainerWidths == {WidthStep * n : n \in 0..MaxWidthSteps}

\* e.clientX - containerRect.left: the pointer may be left of the container
PointerOffsets == {WidthStep * n - WidthStep : n \in 0..(MaxWidthSteps + 2)}

Max(a, b) == IF a >= b THEN a ELSE b
Min(a, b) == IF a <= b THEN a ELSE b

\* containerRect.width * 0.8, exact for the widths of the model
maxWidthOf(width) == (width * 4) \div 5

\* a clamp that leaves out the lower limit
clampedWidthNoMin(newWidth, width) == Min(newWidth, maxWidthOf(width))

\* Math.max(minWidth, Math.min(newWidth, maxWidth))
clampedWidth(newWidth, width) == Max(MinWidth, Min(newWidth, maxWidthOf(width)))

\* mousedown on the resize handle
HandleMouseDown ==
    /\ Showing
    /\ ~isResizing
    /\ isResizing' = TRUE
    /\ UNCHANGED <<storeVars, phase, selVars, treeVars, previewVars, lastNotice, lastDrop,
                   dataCollapsedFolders, lastToggle, sortOrder, sortSaves, pureVars,
                   probeVars, dialogVars, fileExt, treeWidth, lastMove>>

\* mousemove on the document, with the pointer newWidth px right of the left
\* edge of a container that is width px wide
HandleMouseMove(newWidth, width) ==
    /\ Showing
    /\ isResizing
    /\ treeWidth' = clampedWidth(newWidth, width)
    /\ lastMove' = [newWidth |-> newWidth, width |-> width, applied |-> TRUE]
    /\ UNCHANGED <<storeVars, phase, selVars, treeVars, previewVars, lastNotice, lastDrop,
                   dataCollapsedFolders, lastToggle, sortOrder, sortSaves, pureVars,
                   probeVars, dialogVars, fileExt, isResizing>>

\* mouseup on the document: the drag ends and the plugin data is saved
HandleMouseUp ==
    /\ Showing
    /\ isResizing
    /\ isResizing' = FALSE
    /\ UNCHANGED <<storeVars, phase, selVars, treeVars, previewVars, lastNotice, lastDrop,
                   dataCollapsedFolders, lastToggle, sortOrder, sortSaves, pureVars,
                   probeVars, dialogVars, fileExt, treeWidth, lastMove>>

\* Drags of the resize handle in an open view.
NextResize ==
    \/ OnOpen
    \/ OnOpenPreview
    \/ OnOpenRegister
    \/ \E i \in 1..Len(renders) : TreeResume(i)
    \/ HandleMouseDown
    \/ \E newWidth \in PointerOffsets, width \in ContainerWidths :
          HandleMouseMove(newWidth, width)
    \/ HandleMouseUp

SpecResize == InitPreview /\ [][NextResize]_vars

====
